---- MODULE Spec2Model ----
(***************************************************************************)
(* A model of the PNG optimization pipeline of lightfile6-png: the         *)
(* container/comment codec (PNGMetaManager), the quality gate              *)
(* (isAcceptablePSNR), the error taxonomy (DataError / AsDataError) and    *)
(* the two pipeline entry points, Optimizer.Run and the package-level      *)
(* Optimize.                                                               *)
(*                                                                         *)
(* Bytes are modelled structurally.  A file is either a byte string that   *)
(* the container parser rejects, or a signature followed by a sequence of  *)
(* chunks.  A chunk is its 4-byte type and its data; the data of a text    *)
(* chunk is keyword, null separator and text, the data of the image chunk  *)
(* stands for the decoded picture, other data is an opaque run of bytes.   *)
(* Lengths are byte-exact (writeChunk's framing and the JSON text).        *)
(* Scores are decibels in thousandths, or positive infinity.               *)
(***************************************************************************)
EXTENDS Integers, Sequences, FiniteSets, TLC

\* ------------------------------------------------------------------ bounds
\* How many calls of the pipeline one behaviour makes.
MaxRuns == 2

\* ------------------------------------------------------------- basic values
Milli == 10 * 10 * 10

Nil == [nil |-> TRUE]

Inf == [inf |-> TRUE, mdb |-> 0]
Finite(m) == [inf |-> FALSE, mdb |-> m]
ZeroScore == Finite(0)

\* math.IsInf(f, 1)
IsInf(s) == s.inf

\* ------------------------------------------------------------------ errors
\* An error is the chain errors.As walks: the outermost layer first.  A layer
\* made by fmt.Errorf with %w keeps the layers below it; NewDataError(f) and
\* fmt.Errorf without %w start a new chain.
NewDataError(msg) == [layers |-> <<[type |-> "DataError", msg |-> msg]>>]

\* fmt.Errorf(".. %w", err)
Wrap(msg, err) == [layers |-> <<[type |-> "wrap", msg |-> msg]>> \o err.layers]

\* fmt.Errorf with no %w verb: a plain *errors.errorString-like value
PlainError(msg) == [layers |-> <<[type |-> "plain", msg |-> msg]>>]

\* an error returned by package os (*fs.PathError)
OsError(msg) == [layers |-> <<[type |-> "os", msg |-> msg]>>]

\* a type assertion on the outermost layer only, no unwrapping
AsDataErrorTopOnly(err) == err # Nil /\ err.layers[1].type = "DataError"

\* AsDataError: errors.As(err, &dataErr) over the whole chain
AsDataError(err) ==
    /\ err # Nil
    /\ \E i \in 1..Len(err.layers) : err.layers[i].type = "DataError"

\* ------------------------------------------------------------- quality gate
PSNRThreshold == 35 * Milli

isAcceptablePSNRStrict(quality, psnr) ==
    IF IsInf(psnr) THEN TRUE
    ELSE IF quality = "high" THEN psnr.mdb > 45 * Milli
    ELSE IF quality = "low" THEN psnr.mdb > 39 * Milli
    ELSE IF quality = "force" THEN TRUE
    ELSE psnr.mdb > 42 * Milli

isAcceptablePSNR(quality, psnr) ==
    IF IsInf(psnr) THEN TRUE
    ELSE IF quality = "high" THEN psnr.mdb >= 45 * Milli
    ELSE IF quality = "low" THEN psnr.mdb >= 39 * Milli
    ELSE IF quality = "force" THEN TRUE
    ELSE psnr.mdb >= 42 * Milli

\* ------------------------------------------------------------- JSON texts
\* A JSON value token; a string token holds the text between its quotation
\* marks.
JStr(s) == [t |-> "str", s |-> s, i |-> 0, b |-> FALSE]
JInt(i) == [t |-> "int", s |-> "", i |-> i, b |-> FALSE]
JNum(m) == [t |-> "num", s |-> "", i |-> m, b |-> FALSE]
JBool(b) == [t |-> "bool", s |-> "", i |-> 0, b |-> b]
JNull == [t |-> "null", s |-> "", i |-> 0, b |-> FALSE]

\* A text: a JSON object (its members in order) or n bytes that are no JSON.
JsonText(fields) == [json |-> TRUE, fields |-> fields, n |-> 0]
RawText(n) == [json |-> FALSE, fields |-> <<>>, n |-> n]
NoText == RawText(0)

RECURSIVE Digits(_)
Digits(n) == IF n < 10 THEN 1 ELSE 1 + Digits(n \div 10)

\* digits of the fraction m/1000 once trailing zeros are dropped
FracDigits(f) ==
    IF f = 0 THEN 0
    ELSE IF f % 100 = 0 THEN 1
    ELSE IF f % 10 = 0 THEN 2
    ELSE 3

\* length of strconv's shortest decimal form of m/1000, m >= 0
NumLen(m) ==
    Digits(m \div Milli)
      + (IF m % Milli = 0 THEN 0 ELSE 1 + FracDigits(m % Milli))

ValueLen(v) ==
    CASE v.t = "str" -> Len(v.s) + 2
      [] v.t = "int" -> Digits(v.i)
      [] v.t = "num" -> NumLen(v.i)
      [] v.t = "bool" -> IF v.b THEN 4 ELSE 5
      [] v.t = "null" -> 4

RECURSIVE FieldsLen(_)
FieldsLen(fs) ==
    IF fs = <<>> THEN 0
    ELSE Len(fs[1].k) + 2 + 1 + ValueLen(fs[1].v)
           + (IF Len(fs) > 1 THEN 1 ELSE 0) + FieldsLen(Tail(fs))

\* len(string) of a text
TextLen(text) == IF text.json THEN 2 + FieldsLen(text.fields) ELSE text.n

\* ------------------------------------------------------- comment records
LightFileComment(by, before, after, pngquant, psnr) ==
    [By |-> by, Before |-> before, After |-> after,
     PNGQuant |-> pngquant, PSNR |-> psnr]

ZeroComment == LightFileComment("", 0, 0, FALSE, ZeroScore)

\* Strings whose JSON form differs from their bytes.  A TLA+ string cannot
\* hold every byte, so three strings stand for them: InvalidUTF8By for the
\* five bytes 't' 'o' 'o' 'l' 0xFF (no valid UTF-8), ReplacedBy for "tool"
\* followed by the three bytes EF BF BD of U+FFFD, QuotedBy for a"b.
InvalidUTF8By == "tool\\xff"
ReplacedBy == "tool###"
QuotedBy == "a\"b"

\* encoding/json's string encoder, between the quotation marks: a quotation
\* mark is escaped, a byte that is no valid UTF-8 is written as \ufffd
Quote(s) ==
    CASE s = InvalidUTF8By -> "tool\\ufffd"
      [] s = QuotedBy -> "a\\\"b"
      [] OTHER -> s

\* encoding/json's string decoder
Unquote(t) ==
    CASE t = "tool\\ufffd" -> ReplacedBy
      [] t = "a\\\"b" -> QuotedBy
      [] OTHER -> t

\* the score marshalled with no case for infinity
MaybeInfMarshalFinite(m) == JNum(m.mdb)

\* MaybeInf.MarshalJSON
MaybeInfMarshal(m) == IF m.inf THEN JNull ELSE JNum(m.mdb)

\* json.Marshal(comment): the struct's fields in declaration order
Marshal(c) ==
    JsonText(<< [k |-> "by", v |-> JStr(Quote(c.By))],
                [k |-> "before", v |-> JInt(c.Before)],
                [k |-> "after", v |-> JInt(c.After)],
                [k |-> "pngquant", v |-> JBool(c.PNGQuant)],
                [k |-> "psnr", v |-> MaybeInfMarshal(c.PSNR)] >>)

\* json.Unmarshal of one object member into the struct: [ok, c]
SetField(c, k, v) ==
    CASE k = "by" ->
           IF v.t = "str" THEN [ok |-> TRUE, c |-> [c EXCEPT !.By = Unquote(v.s)]]
           ELSE [ok |-> v.t = "null", c |-> c]
      [] k = "before" ->
           IF v.t = "int" THEN [ok |-> TRUE, c |-> [c EXCEPT !.Before = v.i]]
           ELSE [ok |-> v.t = "null", c |-> c]
      [] k = "after" ->
           IF v.t = "int" THEN [ok |-> TRUE, c |-> [c EXCEPT !.After = v.i]]
           ELSE [ok |-> v.t = "null", c |-> c]
      [] k = "pngquant" ->
           IF v.t = "bool" THEN [ok |-> TRUE, c |-> [c EXCEPT !.PNGQuant = v.b]]
           ELSE [ok |-> v.t = "null", c |-> c]
      [] k = "psnr" ->
           \* MaybeInf.UnmarshalJSON
           IF v.t = "null" THEN [ok |-> TRUE, c |-> [c EXCEPT !.PSNR = Inf]]
           ELSE IF v.t = "num" THEN [ok |-> TRUE, c |-> [c EXCEPT !.PSNR = Finite(v.i)]]
           ELSE IF v.t = "int" THEN [ok |-> TRUE, c |-> [c EXCEPT !.PSNR = Finite(v.i * Milli)]]
           ELSE [ok |-> FALSE, c |-> c]
      [] OTHER -> [ok |-> TRUE, c |-> c]

RECURSIVE SetFields(_, _)
SetFields(c, fs) ==
    IF fs = <<>> THEN [ok |-> TRUE, c |-> c]
    ELSE LET one == SetField(c, fs[1].k, fs[1].v)
             rest == SetFields(one.c, Tail(fs))
         IN  [ok |-> one.ok /\ rest.ok, c |-> rest.c]

\* json.Unmarshal([]byte(text), &comment): [ok, c]
Unmarshal(text) ==
    IF text.json THEN SetFields(ZeroComment, text.fields)
    ELSE [ok |-> FALSE, c |-> ZeroComment]

\* -------------------------------------------------------------- containers
\* What image/png decodes from a container: the pixel layout, the pixel
\* content and whether the stream decodes at all.  Pixel content 0 is the
\* picture of the source file; content m > 0 is a rendition of it whose
\* score against the source is m thousandths of a decibel.
Image(layout, pix, ok) == [layout |-> layout, pix |-> pix, ok |-> ok]
NoImage == Image("none", 0, FALSE)

\* Chunk data: keyword, null separator and text (sep), or n bytes without a
\* null byte that matters; the image chunk also carries what it decodes to.
TextData(kw, text) == [sep |-> TRUE, kw |-> kw, text |-> text, n |-> 0, img |-> NoImage]
BlobData(n) == [sep |-> FALSE, kw |-> "", text |-> NoText, n |-> n, img |-> NoImage]
ImageData(n, img) == [sep |-> FALSE, kw |-> "", text |-> NoText, n |-> n, img |-> img]

\* pngstructure.Chunk{Type, Data}
Chunk(type, data) == [Type |-> type, Data |-> data]

\* len(chunk.Data)
DataLen(d) == IF d.sep THEN Len(d.kw) + 1 + TextLen(d.text) ELSE d.n

\* bytes writeChunk appends: length, type, data, CRC
writeChunk(chunk) == 4 + 4 + DataLen(chunk.Data) + 4

\* A file's bytes: a parseable container (signature and chunks) or n bytes
\* the container parser rejects.
Container(chunks) == [parse |-> TRUE, chunks |-> chunks, n |-> 0]
Garbage(n) == [parse |-> FALSE, chunks |-> <<>>, n |-> n]
NoFile == [nofile |-> TRUE]

RECURSIVE ChunksLen(_)
ChunksLen(cs) == IF cs = <<>> THEN 0 ELSE writeChunk(cs[1]) + ChunksLen(Tail(cs))

\* len(data)
FileLen(f) == IF f.parse THEN 8 + ChunksLen(f.chunks) ELSE f.n

\* pngstructure.NewPngMediaParser().ParseBytes(data)
ParseBytes(data) == [ok |-> data.parse, chunks |-> data.chunks]

\* the chunk test with the keyword comparison left out
IsLightFileChunkAnyText(chunk) ==
    /\ chunk.Type = "tEXt"
    /\ chunk.Data.sep

\* the test both loops make: a tEXt chunk with a null separator whose keyword
\* is "LightFile"
IsLightFileChunk(chunk) ==
    /\ chunk.Type = "tEXt"
    /\ chunk.Data.sep
    /\ chunk.Data.kw = "LightFile"

\* index of the first chunk whose flag is set, 0 when there is none
FirstIndex(hits) ==
    IF \E i \in 1..Len(hits) : hits[i]
    THEN CHOOSE i \in 1..Len(hits) :
            /\ hits[i]
            /\ \A j \in 1..(i - 1) : ~hits[j]
    ELSE 0

\* one flag per chunk: is it a reserved-keyword text chunk, the end chunk,
\* an image data chunk
LightFileHits(chunks) == [i \in 1..Len(chunks) |-> IsLightFileChunk(chunks[i])]
IENDHits(chunks) == [i \in 1..Len(chunks) |-> chunks[i].Type = "IEND"]
IDATHits(chunks) == [i \in 1..Len(chunks) |-> chunks[i].Type = "IDAT"]

\* ReadComment with a payload that does not deserialize reported as an error
ReadCommentStrict(data) ==
    LET parsed == ParseBytes(data)
        i == FirstIndex(LightFileHits(parsed.chunks))
    IN  IF ~parsed.ok
        THEN [comment |-> Nil, raw |-> NoText,
              err |-> NewDataError("failed to parse PNG structure")]
        ELSE IF i = 0
        THEN [comment |-> Nil, raw |-> NoText, err |-> Nil]
        ELSE LET text == parsed.chunks[i].Data.text
                 u == Unmarshal(text)
             IN  IF ~u.ok
                 THEN [comment |-> Nil, raw |-> NoText,
                       err |-> NewDataError("failed to parse comment")]
                 ELSE [comment |-> u.c, raw |-> text, err |-> Nil]

\* the reader going on to the next reserved chunk when one does not
\* deserialize
ReadCommentFirstValid(data) ==
    LET parsed == ParseBytes(data)
        valid == [i \in 1..Len(parsed.chunks) |->
                    /\ IsLightFileChunk(parsed.chunks[i])
                    /\ Unmarshal(parsed.chunks[i].Data.text).ok]
        i == FirstIndex(valid)
    IN  IF ~parsed.ok
        THEN [comment |-> Nil, raw |-> NoText,
              err |-> NewDataError("failed to parse PNG structure")]
        ELSE IF i = 0
        THEN [comment |-> Nil, raw |-> NoText, err |-> Nil]
        ELSE [comment |-> Unmarshal(parsed.chunks[i].Data.text).c,
              raw |-> parsed.chunks[i].Data.text, err |-> Nil]

\* PNGMetaManager.ReadComment: [comment, raw, err]
ReadComment(data) ==
    LET parsed == ParseBytes(data)
        i == FirstIndex(LightFileHits(parsed.chunks))
    IN  IF ~parsed.ok
        THEN [comment |-> Nil, raw |-> NoText,
              err |-> NewDataError("failed to parse PNG structure")]
        ELSE IF i = 0
        THEN [comment |-> Nil, raw |-> NoText, err |-> Nil]
        ELSE LET text == parsed.chunks[i].Data.text
                 u == Unmarshal(text)
             IN  IF ~u.ok
                 THEN [comment |-> Nil, raw |-> text, err |-> Nil]
                 ELSE [comment |-> u.c, raw |-> text, err |-> Nil]

\* the embed cost with the chunk framing left out
BuildCommentTextOnly(comment) ==
    LET jsonString == Marshal(comment)
    IN  [text |-> jsonString, size |-> TextLen(jsonString), err |-> Nil]

\* PNGMetaManager.BuildComment: [text, size, err].  json.Marshal fails only
\* for a NaN score, which no score of this model is.
BuildComment(comment) ==
    LET jsonString == Marshal(comment)
        keyword == "LightFile"
        chunkOverhead == 4 + 4 + Len(keyword) + 1 + 4
    IN  [text |-> jsonString, size |-> chunkOverhead + TextLen(jsonString),
         err |-> Nil]

NotLightFileChunk(chunk) == ~IsLightFileChunk(chunk)

\* the writer putting the comment last when there is no IEND chunk
WriteCommentStringAppend(data, comment) ==
    LET parsed == ParseBytes(data)
        textChunk == Chunk("tEXt", TextData("LightFile", comment))
        newChunks == SelectSeq(parsed.chunks, NotLightFileChunk)
        i == FirstIndex(IENDHits(newChunks))
    IN  IF ~parsed.ok
        THEN [data |-> Nil, err |-> NewDataError("failed to parse PNG structure")]
        ELSE IF i = 0
        THEN [data |-> Container(Append(newChunks, textChunk)), err |-> Nil]
        ELSE [data |-> Container(SubSeq(newChunks, 1, i - 1) \o <<textChunk>>
                                   \o SubSeq(newChunks, i, Len(newChunks))),
              err |-> Nil]

\* PNGMetaManager.WriteCommentString: [data, err]
WriteCommentString(data, comment) ==
    LET parsed == ParseBytes(data)
        textChunk == Chunk("tEXt", TextData("LightFile", comment))
        newChunks == SelectSeq(parsed.chunks, NotLightFileChunk)
        i == FirstIndex(IENDHits(newChunks))
        finalChunks == SubSeq(newChunks, 1, i - 1) \o <<textChunk>>
                         \o SubSeq(newChunks, i, Len(newChunks))
    IN  IF ~parsed.ok
        THEN [data |-> Nil, err |-> NewDataError("failed to parse PNG structure")]
        ELSE IF i = 0
        THEN [data |-> Nil, err |-> NewDataError("png file missing IEND chunk")]
        ELSE [data |-> Container(finalChunks), err |-> Nil]

\* PNGMetaManager.WriteComment: [data, err]
WriteComment(data, comment) ==
    LET built == BuildComment(comment)
    IN  IF built.err # Nil THEN [data |-> Nil, err |-> built.err]
        ELSE WriteCommentString(data, built.text)

\* comment.go, the package-level codec before PNGMetaManager: its record has
\* no score, BuildComment reports the text's length alone and WriteComment
\* leaves the reserved chunks of its input in place.
CommentGoBuildComment(comment) ==
    LET jsonStr == JsonText(<< [k |-> "by", v |-> JStr(Quote(comment.By))],
                               [k |-> "before", v |-> JInt(comment.Before)],
                               [k |-> "after", v |-> JInt(comment.After)],
                               [k |-> "pngquant", v |-> JBool(comment.PNGQuant)] >>)
    IN  [text |-> jsonStr, size |-> TextLen(jsonStr), err |-> Nil]

CommentGoWriteComment(data, comment) ==
    LET parsed == ParseBytes(data)
        textChunk == Chunk("tEXt", TextData("LightFile", comment))
        i == FirstIndex(IENDHits(parsed.chunks))
        newChunks == SubSeq(parsed.chunks, 1, i - 1) \o <<textChunk>>
                       \o SubSeq(parsed.chunks, i, Len(parsed.chunks))
    IN  IF ~parsed.ok
        THEN [data |-> Nil, err |-> NewDataError("failed to parse PNG structure")]
        ELSE IF i = 0
        THEN [data |-> Nil, err |-> NewDataError("PNG file missing IEND chunk")]
        ELSE [data |-> Container(newChunks), err |-> Nil]

\* ------------------------------------------------------------ collaborators
\* image/png.Decode: the picture the container's image chunk holds
Decode(data) ==
    LET i == IF data.parse
             THEN FirstIndex(IDATHits(data.chunks))
             ELSE 0
    IN  IF i = 0 THEN NoImage ELSE data.chunks[i].Data.img

\* psnr.Compute(a, b): [ok, score].  Fails when either side does not decode;
\* infinite exactly when the pixels agree.
Compute(a, b) ==
    LET ia == Decode(a)
        ib == Decode(b)
    IN  IF ~ia.ok \/ ~ib.ok THEN [ok |-> FALSE, score |-> ZeroScore]
        ELSE IF ia.pix = ib.pix THEN [ok |-> TRUE, score |-> Inf]
        ELSE [ok |-> TRUE,
              score |-> Finite(IF ia.pix = 0 THEN ib.pix ELSE ia.pix)]

\* chunk types the metadata-stripping collaborator removes
StrippedTypes == {"tEXt", "zTXt", "iTXt", "tIME", "eXIf"}
KeptByStrip(chunk) == chunk.Type \notin StrippedTypes

\* pngmetawebstrip.Strip(pngData) when it succeeds
Strip(data) == Container(SelectSeq(data.chunks, KeptByStrip))

\* libimagequant status codes
LIQ_OK == 0
QualityTooLow == 99

\* What the quantization engine and the re-encoding hand back for one call:
\* the status, the palette size, the size of the encoded image data, the
\* pixels (see Image) and whether the metric can decode the encoding.
Engine(status, colors, n, pix, ok) ==
    [status |-> status, colors |-> colors, n |-> n, pix |-> pix, ok |-> ok]

\* decodeRgbaPng: [err, sample]; sample "none" is the nil sample of a
\* palette image
decodeRgbaPng(data) ==
    LET img == Decode(data)
    IN  IF ~img.ok
        THEN [err |-> PlainError("png: failed to decode"), sample |-> "none"]
        ELSE IF img.layout = "palette" THEN [err |-> Nil, sample |-> "none"]
        ELSE IF img.layout = "nrgba" THEN [err |-> Nil, sample |-> "rgba"]
        ELSE IF img.layout = "rgba" THEN [err |-> Nil, sample |-> "rgba"]
        ELSE [err |-> PlainError("png: unsupported image type on decoding"),
              sample |-> "none"]

\* Pngquant(data): [data, err]
Pngquant(data, eng) ==
    LET d == decodeRgbaPng(data)
    IN  IF d.err # Nil
        THEN [data |-> Nil,
              err |-> PlainError("png: failed to decode first in pngquant")]
        ELSE IF d.sample = "none" THEN [data |-> data, err |-> Nil]
        ELSE IF eng.status # LIQ_OK
        THEN [data |-> Nil, err |-> PlainError("png: failed to quantize")]
        ELSE [data |-> Container(<<
                 Chunk("IHDR", BlobData(13)),
                 Chunk("PLTE", BlobData(3 * eng.colors)),
                 Chunk("IDAT", ImageData(eng.n, Image("palette", eng.pix, eng.ok))),
                 Chunk("IEND", BlobData(0)) >>),
              err |-> Nil]

\* ------------------------------------------------------------- file system
Paths == {"in.png", "out/a.png", "gone/b.png", "none.png"}
SrcPaths == {"in.png", "out/a.png", "none.png"}
DestPaths == {"out/a.png", "gone/b.png"}

\* filepath.Dir
DirOf(path) ==
    CASE path = "out/a.png" -> "out"
      [] path = "out/b.png" -> "out"
      [] path = "gone/b.png" -> "gone"
      [] OTHER -> "."

\* --------------------------------------------------------------- the state
VARIABLES
    fs,           \* path -> the file's bytes, or NoFile
    dirs,         \* the directories that exist
    runs,         \* calls made so far
    produced,     \* paths whose bytes os.WriteFile of a run put there
    pc,           \* where the current call stands
    entry,        \* "Run" (Optimizer.Run) or "Optimize" (package function)
    Quality,      \* Optimizer.Quality / input.Quality
    srcPath, destPath,
    srcProduced,  \* srcPath held a run's output when the call began
    fsBefore,     \* the file system when the call began
    steps,        \* the steps the call has taken, in order
    pngData, originalData, finalPSNR, comment, output,
    ret,          \* what the call returned: [result, err]
    gate,         \* one application of isAcceptablePSNR: [quality, score, set, result]
    logger,       \* the logging sink the package holds, Nil when none is set
    collab        \* concurrent runs: what the collaborators hand each run

vars == <<fs, dirs, runs, produced, pc, entry, Quality, srcPath, destPath,
          srcProduced, fsBefore, steps, pngData, originalData, finalPSNR,
          comment, output, ret, gate, logger, collab>>

\* OptimizePNGOutput{}
ZeroOutput ==
    [BeforeSize |-> 0, AlreadyOptimized |-> FALSE, AlreadyOptimizedBy |-> "",
     Strip |-> Nil, StripError |-> Nil, SizeAfterStrip |-> 0,
     PNGQuant |-> [PSNR |-> ZeroScore, Applied |-> FALSE],
     SizeAfterPNGQuant |-> 0, PNGQuantError |-> Nil,
     CantOptimize |-> FALSE, InspectionFailed |-> FALSE,
     FinalPSNR |-> ZeroScore, AfterSize |-> 0]

NoRet == [result |-> Nil, err |-> Nil]
Return(result, err) == [result |-> result, err |-> err]

\* ---------------------------------------------------- the pipeline's steps
\* os.ReadFile(srcPath): [err, data]
ReadFile(fsys, path) ==
    IF fsys[path] = NoFile
    THEN [err |-> OsError("open: no such file or directory"), data |-> Nil]
    ELSE [err |-> Nil, data |-> fsys[path]]

\* os.WriteFile with the missing directory created first
WriteFileMkdirAll(fsys, dirset, path, data) ==
    [err |-> Nil, fs |-> [fsys EXCEPT ![path] = data],
     dirs |-> dirset \cup {DirOf(path)}]

\* os.WriteFile(destPath, pngData, perm): [err, fs, dirs]
WriteFile(fsys, dirset, path, data) ==
    IF DirOf(path) \notin dirset
    THEN [err |-> OsError("open: no such file or directory"),
          fs |-> fsys, dirs |-> dirset]
    ELSE [err |-> Nil, fs |-> [fsys EXCEPT ![path] = data], dirs |-> dirset]

\* os.Stat(destPath): [err, size]
Stat(fsys, path) ==
    IF fsys[path] = NoFile
    THEN [err |-> OsError("stat: no such file or directory"), size |-> 0]
    ELSE [err |-> Nil, size |-> FileLen(fsys[path])]

\* the early return's test with the By test left out
IsAlreadyOptimizedAnyBy(c) == c # Nil

\* comment != nil && comment.By != ""
IsAlreadyOptimized(c) == c # Nil /\ c.By # ""

\* the strip step with the failure reported as an ordinary error
StripStepPlainError(data, out, ok) ==
    IF ~ok
    THEN [data |-> data,
          out |-> [out EXCEPT !.StripError = PlainError("failed to strip metadata"),
                              !.SizeAfterStrip = FileLen(data)]]
    ELSE [data |-> Strip(data),
          out |-> [out EXCEPT
                     !.Strip = [Total |-> FileLen(data) - FileLen(Strip(data))],
                     !.SizeAfterStrip = FileLen(Strip(data))]]

\* Strip metadata: [data, out].  ok: whether the collaborator succeeds.
StripStep(data, out, ok) ==
    IF ~ok
    THEN [data |-> data,
          out |-> [out EXCEPT !.StripError = NewDataError("failed to strip metadata"),
                              !.SizeAfterStrip = FileLen(data)]]
    ELSE [data |-> Strip(data),
          out |-> [out EXCEPT
                     !.Strip = [Total |-> FileLen(data) - FileLen(Strip(data))],
                     !.SizeAfterStrip = FileLen(Strip(data))]]

\* the quantize step with a rejected score left off the result
QuantizeStepDropScore(e, quality, data, out, eng) ==
    LET q == Pngquant(data, eng)
        p == Compute(data, q.data)
        sized(d, o) == [o EXCEPT !.SizeAfterPNGQuant = FileLen(d)]
    IN  IF q.err # Nil
        THEN [abort |-> Nil, data |-> data,
              out |-> sized(data, [out EXCEPT !.PNGQuantError = q.err])]
        ELSE IF ~p.ok
        THEN [abort |-> Nil, data |-> data,
              out |-> sized(data, [out EXCEPT !.PNGQuantError =
                 NewDataError("failed to calculate PSNR after PNGQuant")])]
        ELSE IF isAcceptablePSNR(quality, p.score)
        THEN [abort |-> Nil, data |-> q.data,
              out |-> sized(q.data, [out EXCEPT !.PNGQuant =
                        [PSNR |-> p.score, Applied |-> TRUE]])]
        ELSE [abort |-> Nil, data |-> data, out |-> sized(data, out)]

\* Quantize and gate: [abort, data, out].  abort is the error the call
\* returns at once, Nil when the pipeline goes on.
QuantizeStep(e, quality, data, out, eng) ==
    LET beforePNGQuant == data
        q == Pngquant(data, eng)
        p == Compute(beforePNGQuant, q.data)
        sized(d, o) == [o EXCEPT !.SizeAfterPNGQuant = FileLen(d)]
    IN  IF q.err # Nil
        THEN [abort |-> Nil, data |-> data,
              out |-> sized(data, [out EXCEPT !.PNGQuantError = q.err])]
        ELSE IF ~p.ok
        THEN IF e = "Run"
             THEN [abort |-> Nil, data |-> data,
                   out |-> sized(data, [out EXCEPT !.PNGQuantError =
                      NewDataError("failed to calculate PSNR after PNGQuant")])]
             ELSE [abort |-> NewDataError("failed to calculate PSNR after quantization"),
                   data |-> data, out |-> out]
        ELSE IF isAcceptablePSNR(quality, p.score)
        THEN [abort |-> Nil, data |-> q.data,
              out |-> sized(q.data, [out EXCEPT !.PNGQuant =
                        [PSNR |-> p.score, Applied |-> TRUE]])]
        ELSE [abort |-> Nil, data |-> data,
              out |-> sized(data, [out EXCEPT !.PNGQuant =
                        [PSNR |-> p.score, Applied |-> FALSE]])]

\* the comment of a run with the tool identifier left empty
NewCommentNoBy(out, data, score) ==
    LightFileComment("", out.BeforeSize, FileLen(data),
                     out.PNGQuant.Applied, score)

\* the comment of a run with the size taken before quantization
NewCommentAfterStrip(out, data, score) ==
    LightFileComment("LightFile", out.BeforeSize, out.SizeAfterStrip,
                     out.PNGQuant.Applied, score)

\* comment = &LightFileComment{By: "LightFile", ...}
NewComment(out, data, score) ==
    LightFileComment("LightFile", out.BeforeSize, FileLen(data),
                     out.PNGQuant.Applied, score)

\* the size test with the comparison strict
CantShrinkStrict(currentSize, commentSizeIncrease, beforeSize) ==
    currentSize + commentSizeIncrease > beforeSize

\* the size test made on the working bytes alone
CantShrinkIgnoresComment(currentSize, commentSizeIncrease, beforeSize) ==
    currentSize >= beforeSize

\* finalSizeWithComment >= output.BeforeSize
CantShrink(currentSize, commentSizeIncrease, beforeSize) ==
    currentSize + commentSizeIncrease >= beforeSize

\* the inspection with the comparison turned round
FailsInspectionFlipped(score) == ~IsInf(score) /\ score.mdb > PSNRThreshold

\* !math.IsInf(finalPSNR, 1) && finalPSNR < PSNRThreshold
FailsInspection(score) == ~IsInf(score) /\ score.mdb < PSNRThreshold

\* ------------------------------------------------------------ source files
IHDR == Chunk("IHDR", BlobData(13))
IEND == Chunk("IEND", BlobData(0))
IDAT(img) == Chunk("IDAT", ImageData(400, img))
tIME == Chunk("tIME", BlobData(7))
Software(n) == Chunk("tEXt", TextData("Software", RawText(n)))
NoSeparator == Chunk("tEXt", BlobData(20))
LightFile(text) == Chunk("tEXt", TextData("LightFile", text))

TrueColor == Image("rgba", 0, TRUE)

ValidText(by) == Marshal(LightFileComment(by, 900, 600, TRUE, Finite(43 * Milli)))

\* ancillary chunks of files that carry no reserved comment
PlainExtras ==
    { <<>>, <<Software(73)>>, <<Software(74)>>, <<tIME, Software(200)>> }

SourceImages ==
    { TrueColor, Image("palette", 0, TRUE), Image("gray", 0, TRUE),
      Image("rgba", 0, FALSE) }

\* ancillary chunks of files that carry a reserved comment
CommentExtras ==
    { <<LightFile(ValidText("LightFile"))>>,
      <<LightFile(ValidText("other-tool"))>>,
      <<LightFile(ValidText(""))>>,
      <<LightFile(JsonText(<<>>))>>,
      <<LightFile(JsonText(<<[k |-> "by", v |-> JInt(5)]>>))>>,
      <<LightFile(RawText(14))>>,
      <<LightFile(RawText(14)), LightFile(ValidText("LightFile"))>>,
      <<NoSeparator, Chunk("tEXt", TextData("Comment", ValidText("LightFile"))),
        LightFile(ValidText("LightFile"))>> }

SourceFiles ==
    { Garbage(0), Garbage(14) }
      \cup { Container(<<IHDR>> \o x \o <<IDAT(img), IEND>>) :
               x \in PlainExtras, img \in SourceImages }
      \cup { Container(<<IHDR>> \o x \o <<IDAT(TrueColor), IEND>>) :
               x \in CommentExtras }
      \cup { Container(<<IHDR, IDAT(Image("nrgba", 0, TRUE)), IEND>>),
             Container(<<IHDR, IDAT(TrueColor)>>),
             Container(<<IHDR, tIME, Software(200), IDAT(TrueColor)>>) }

Qualities == {"", "high", "low", "force"}
Entries == {"Run", "Optimize"}

\* what the engine may hand back
EngineOutcomes ==
    { Engine(QualityTooLow, 0, 0, 0, FALSE),
      Engine(LIQ_OK, 2, 100, 45 * Milli, FALSE) }
      \cup { Engine(LIQ_OK, 2, n, pix, TRUE) :
               n \in {100, 500},
               pix \in {0, 45 * Milli, 45 * Milli - 1, 40 * Milli,
                        35 * Milli, 35 * Milli - 1, 27 * Milli} }

NoGate == [quality |-> "", score |-> ZeroScore, set |-> FALSE, result |-> FALSE]

\* ------------------------------------------------------------------- Init
Init ==
    /\ \E f \in SourceFiles :
          fs = [p \in Paths |-> IF p = "in.png" THEN f ELSE NoFile]
    /\ dirs = {".", "out"}
    /\ runs = 0
    /\ produced = {}
    /\ pc = "idle"
    /\ entry = "Run"
    /\ Quality = ""
    /\ srcPath = "in.png"
    /\ destPath = "out/a.png"
    /\ srcProduced = FALSE
    /\ fsBefore = fs
    /\ steps = <<>>
    /\ pngData = Nil
    /\ originalData = Nil
    /\ finalPSNR = ZeroScore
    /\ comment = Nil
    /\ output = ZeroOutput
    /\ ret = NoRet
    /\ gate = NoGate
    /\ logger = Nil
    /\ collab = Nil

\* ---------------------------------------------------------------- actions
Step(name) == steps' = Append(steps, name)

\* the call returns
Done(result, err) == pc' = "done" /\ ret' = Return(result, err)

\* NewOptimizer(q).Run(s, d) or Optimize({s, d, q}): output := the zero value
Call(e, q, s, d) ==
    /\ pc \in {"idle", "done"}
    /\ runs < MaxRuns
    /\ runs' = runs + 1
    /\ entry' = e /\ Quality' = q /\ srcPath' = s /\ destPath' = d
    /\ srcProduced' = (s \in produced)
    /\ fsBefore' = fs
    /\ steps' = <<>>
    /\ pngData' = Nil /\ originalData' = Nil /\ finalPSNR' = ZeroScore
    /\ comment' = Nil /\ output' = ZeroOutput /\ ret' = NoRet
    /\ pc' = "read"
    /\ UNCHANGED <<fs, dirs, produced, gate, logger, collab>>

\* Read PNG file
Read ==
    /\ pc = "read"
    /\ Step("read")
    /\ LET r == ReadFile(fs, srcPath)
       IN  IF r.err # Nil
           THEN /\ Done(Nil, Wrap("failed to read PNG file", r.err))
                /\ UNCHANGED <<pngData, output>>
           ELSE /\ pngData' = r.data
                /\ output' = [output EXCEPT !.BeforeSize = FileLen(r.data)]
                /\ pc' = "check"
                /\ ret' = ret
    /\ UNCHANGED <<fs, dirs, runs, produced, entry, Quality, srcPath, destPath,
                   srcProduced, fsBefore, originalData, finalPSNR, comment, gate, logger, collab>>

\* Check if already optimized using ReadComment
CheckAlreadyOptimized ==
    /\ pc = "check"
    /\ Step("check")
    /\ LET r == ReadComment(pngData)
       IN  IF r.err # Nil
           THEN /\ Done(Nil, Wrap("failed to read PNG comment", r.err))
                /\ UNCHANGED <<output, originalData>>
           ELSE IF IsAlreadyOptimized(r.comment)
           THEN /\ output' = [output EXCEPT !.AlreadyOptimized = TRUE,
                                            !.AlreadyOptimizedBy = r.comment.By]
                /\ Done(output', Nil)
                /\ UNCHANGED originalData
           ELSE /\ originalData' = pngData
                /\ pc' = "strip"
                /\ UNCHANGED <<output, ret>>
    /\ UNCHANGED <<fs, dirs, runs, produced, entry, Quality, srcPath, destPath,
                   srcProduced, fsBefore, pngData, finalPSNR, comment, gate, logger, collab>>

\* Strip metadata using pngmetawebstrip
StripMetadata ==
    /\ pc = "strip"
    /\ Step("strip")
    /\ \E ok \in BOOLEAN :
          LET r == StripStep(pngData, output, ok)
          IN  /\ pngData' = r.data
              /\ output' = r.out
    /\ pc' = "quantize"
    /\ UNCHANGED <<fs, dirs, runs, produced, entry, Quality, srcPath, destPath,
                   srcProduced, fsBefore, originalData, finalPSNR, comment, ret,
                   gate, logger, collab>>

\* Perform PNG quantization using Pngquant
Quantize ==
    /\ pc = "quantize"
    /\ Step("quantize")
    /\ \E eng \in EngineOutcomes :
          LET r == QuantizeStep(entry, Quality, pngData, output, eng)
          IN  IF r.abort # Nil
              THEN /\ Done(Nil, r.abort)
                   /\ UNCHANGED <<pngData, output>>
              ELSE /\ pngData' = r.data
                   /\ output' = r.out
                   /\ pc' = "score"
                   /\ ret' = ret
    /\ UNCHANGED <<fs, dirs, runs, produced, entry, Quality, srcPath, destPath,
                   srcProduced, fsBefore, originalData, finalPSNR, comment, gate, logger, collab>>

\* Calculate final PSNR between original and final
ComputeFinalScore ==
    /\ pc = "score"
    /\ Step("score")
    /\ LET p == Compute(originalData, pngData)
       IN  IF ~p.ok
           THEN /\ Done(Nil, NewDataError("failed to calculate final PSNR"))
                /\ UNCHANGED finalPSNR
           ELSE /\ finalPSNR' = p.score
                /\ pc' = "build"
                /\ ret' = ret
    /\ UNCHANGED <<fs, dirs, runs, produced, entry, Quality, srcPath, destPath,
                   srcProduced, fsBefore, pngData, originalData, comment, output,
                   gate, logger, collab>>

\* the size check setting CantOptimize and going on to Embed all the same
BuildAndSizeCheckNoReturn ==
    /\ pc = "build"
    /\ Step("build")
    /\ comment' = NewComment(output, pngData, finalPSNR)
    /\ LET built == BuildComment(comment')
           currentSize == FileLen(pngData)
       IN  IF built.err # Nil
           THEN /\ Done(Nil, Wrap("failed to build comment", built.err))
                /\ UNCHANGED output
           ELSE /\ output' = [output EXCEPT !.CantOptimize =
                     CantShrink(currentSize, built.size, output.BeforeSize)]
                /\ pc' = "embed"
                /\ ret' = ret
    /\ UNCHANGED <<fs, dirs, runs, produced, entry, Quality, srcPath, destPath,
                   srcProduced, fsBefore, pngData, originalData, finalPSNR, gate,
                   logger, collab>>

\* the size check also reporting a low score on the result it returns
BuildAndSizeCheckAlsoInspects ==
    /\ pc = "build"
    /\ Step("build")
    /\ comment' = NewComment(output, pngData, finalPSNR)
    /\ LET built == BuildComment(comment')
           currentSize == FileLen(pngData)
       IN  IF built.err # Nil
           THEN /\ Done(Nil, Wrap("failed to build comment", built.err))
                /\ UNCHANGED output
           ELSE IF CantShrink(currentSize, built.size, output.BeforeSize)
           THEN /\ output' = [output EXCEPT
                                !.CantOptimize = TRUE,
                                !.InspectionFailed = FailsInspection(finalPSNR)]
                /\ Done(output', Nil)
           ELSE /\ pc' = "embed"
                /\ UNCHANGED <<output, ret>>
    /\ UNCHANGED <<fs, dirs, runs, produced, entry, Quality, srcPath, destPath,
                   srcProduced, fsBefore, pngData, originalData, finalPSNR, gate,
                   logger, collab>>

\* Build comment; check if adding it would make the file no smaller
BuildAndSizeCheck ==
    /\ pc = "build"
    /\ Step("build")
    /\ comment' = NewComment(output, pngData, finalPSNR)
    /\ LET built == BuildComment(comment')
           currentSize == FileLen(pngData)
       IN  IF built.err # Nil
           THEN /\ Done(Nil, Wrap("failed to build comment", built.err))
                /\ UNCHANGED output
           ELSE IF CantShrink(currentSize, built.size, output.BeforeSize)
           THEN /\ output' = [output EXCEPT !.CantOptimize = TRUE]
                /\ Done(output', Nil)
           ELSE /\ pc' = "embed"
                /\ UNCHANGED <<output, ret>>
    /\ UNCHANGED <<fs, dirs, runs, produced, entry, Quality, srcPath, destPath,
                   srcProduced, fsBefore, pngData, originalData, finalPSNR, gate, logger, collab>>

\* Write the comment
Embed ==
    /\ pc = "embed"
    /\ Step("embed")
    /\ LET w == WriteComment(pngData, comment)
       IN  IF w.err # Nil
           THEN /\ Done(Nil, Wrap("failed to write comment", w.err))
                /\ UNCHANGED pngData
           ELSE /\ pngData' = w.data
                /\ pc' = "inspect"
                /\ ret' = ret
    /\ UNCHANGED <<fs, dirs, runs, produced, entry, Quality, srcPath, destPath,
                   srcProduced, fsBefore, originalData, finalPSNR, comment,
                   output, gate, logger, collab>>

\* the inspection made on, and storing, the quantization's own score
FinalInspectionGateScore ==
    /\ pc = "inspect"
    /\ Step("inspect")
    /\ IF FailsInspection(output.PNGQuant.PSNR)
       THEN /\ output' = [output EXCEPT !.FinalPSNR = output.PNGQuant.PSNR,
                                        !.InspectionFailed = TRUE]
            /\ Done(output', Nil)
       ELSE /\ output' = [output EXCEPT !.FinalPSNR = output.PNGQuant.PSNR]
            /\ pc' = "commit"
            /\ ret' = ret
    /\ UNCHANGED <<fs, dirs, runs, produced, entry, Quality, srcPath, destPath,
                   srcProduced, fsBefore, pngData, originalData, finalPSNR,
                   comment, gate, logger, collab>>

\* Set FinalPSNR (Optimize: recomputed on the commented bytes) and check
\* the PSNR threshold
FinalInspection ==
    /\ pc = "inspect"
    /\ Step("inspect")
    /\ LET after == IF entry = "Run" THEN [ok |-> TRUE, score |-> finalPSNR]
                    ELSE Compute(originalData, pngData)
       IN  IF ~after.ok
           THEN /\ Done(Nil, NewDataError("failed to calculate final PSNR after comment"))
                /\ UNCHANGED output
           ELSE IF FailsInspection(finalPSNR)
           THEN /\ output' = [output EXCEPT !.FinalPSNR = after.score,
                                            !.InspectionFailed = TRUE]
                /\ Done(output', Nil)
           ELSE /\ output' = [output EXCEPT !.FinalPSNR = after.score]
                /\ pc' = "commit"
                /\ ret' = ret
    /\ UNCHANGED <<fs, dirs, runs, produced, entry, Quality, srcPath, destPath,
                   srcProduced, fsBefore, pngData, originalData, finalPSNR,
                   comment, gate, logger, collab>>

\* Write the optimized PNG to destination path
Commit ==
    /\ pc = "commit"
    /\ Step("commit")
    /\ LET w == WriteFile(fs, dirs, destPath, pngData)
       IN  IF w.err # Nil
           THEN /\ Done(Nil, Wrap("failed to write optimized PNG", w.err))
                /\ fs' = w.fs /\ dirs' = w.dirs
                /\ UNCHANGED produced
           ELSE /\ fs' = w.fs /\ dirs' = w.dirs
                /\ produced' = produced \cup {destPath}
                /\ pc' = "stat"
                /\ ret' = ret
    /\ UNCHANGED <<runs, entry, Quality, srcPath, destPath, srcProduced,
                   fsBefore, pngData, originalData, finalPSNR, comment, output,
                   gate, logger, collab>>

\* Get file size after optimization
StatDest ==
    /\ pc = "stat"
    /\ Step("stat")
    /\ LET st == Stat(fs, destPath)
       IN  IF st.err # Nil
           THEN /\ Done(Nil, Wrap("failed to stat destination file", st.err))
                /\ UNCHANGED output
           ELSE /\ output' = [output EXCEPT !.AfterSize = st.size]
                /\ Done(output', Nil)
    /\ UNCHANGED <<fs, dirs, runs, produced, entry, Quality, srcPath, destPath,
                   srcProduced, fsBefore, pngData, originalData, finalPSNR,
                   comment, gate, logger, collab>>

\* The environment removes the destination file between the write and the
\* stat: the one way os.Stat fails after os.WriteFile succeeded.
RemoveDest ==
    /\ pc = "stat"
    /\ fs[destPath] # NoFile
    /\ fs' = [fs EXCEPT ![destPath] = NoFile]
    /\ produced' = produced \ {destPath}
    /\ UNCHANGED <<dirs, runs, pc, entry, Quality, srcPath, destPath,
                   srcProduced, fsBefore, steps, pngData, originalData,
                   finalPSNR, comment, output, ret, gate, logger, collab>>

Next ==
    \/ \E e \in Entries, q \in Qualities, s \in SrcPaths, d \in DestPaths :
          Call(e, q, s, d)
    \/ Read
    \/ CheckAlreadyOptimized
    \/ StripMetadata
    \/ Quantize
    \/ ComputeFinalScore
    \/ BuildAndSizeCheck
    \/ Embed
    \/ FinalInspection
    \/ Commit
    \/ StatDest
    \/ RemoveDest

Spec == Init /\ [][Next]_vars

\* ------------------------------------------- the quality gate on its own
\* isAcceptablePSNR applied to one (quality, score) pair drawn at the start.
GateQualities == {"", "high", "low", "force", "medium", "HIGH", "best"}

GateScores ==
    {Inf} \cup { Finite(m) :
        m \in {0, 1, 10 * Milli, 27 * Milli,
               35 * Milli - 1, 35 * Milli,
               39 * Milli - 1, 39 * Milli, 39 * Milli + 1,
               42 * Milli - 1, 42 * Milli, 42 * Milli + 1,
               45 * Milli - 1, 45 * Milli, 45 * Milli + 1,
               50 * Milli, 99 * Milli} }

InitGate ==
    /\ fs = [p \in Paths |-> NoFile]
    /\ dirs = {".", "out"}
    /\ runs = 0
    /\ produced = {}
    /\ pc = "gate"
    /\ entry = "Run"
    /\ Quality = ""
    /\ srcPath = "in.png"
    /\ destPath = "out/a.png"
    /\ srcProduced = FALSE
    /\ fsBefore = fs
    /\ steps = <<>>
    /\ pngData = Nil
    /\ originalData = Nil
    /\ finalPSNR = ZeroScore
    /\ comment = Nil
    /\ output = ZeroOutput
    /\ ret = NoRet
    /\ \E q \in GateQualities, sc \in GateScores :
          gate = [quality |-> q, score |-> sc, set |-> FALSE, result |-> FALSE]
    /\ logger = Nil
    /\ collab = Nil

ApplyGate ==
    /\ pc = "gate"
    /\ ~gate.set
    /\ gate' = [gate EXCEPT !.set = TRUE,
                            !.result = isAcceptablePSNR(gate.quality, gate.score)]
    /\ UNCHANGED <<fs, dirs, runs, produced, pc, entry, Quality, srcPath,
                   destPath, srcProduced, fsBefore, steps, pngData,
                   originalData, finalPSNR, comment, output, ret, logger,
                   collab>>

NextGate == ApplyGate

SpecGate == InitGate /\ [][NextGate]_vars

\* ================================================================ claims
\* the source file of the current call, as it was when the call began
Source == fsBefore[srcPath]

LastStep == IF steps = <<>> THEN "none" ELSE steps[Len(steps)]
Took(name) == \E i \in 1..Len(steps) : steps[i] = name
Returned == pc = "done"
ReturnedResult == pc = "done" /\ ret.err = Nil /\ ret.result # Nil
ReturnedError == pc = "done" /\ ret.err # Nil /\ ret.result = Nil

\* the record the first reserved-keyword text chunk of a container
\* deserializes to, Nil when there is none or it does not deserialize
FirstReserved(file) ==
    LET i == FirstIndex(LightFileHits(file.chunks))
        u == Unmarshal(file.chunks[i].Data.text)
    IN  IF i = 0 THEN Nil ELSE IF u.ok THEN u.c ELSE Nil

\* C1: a call on a parseable source ends as AlreadyOptimized exactly when the
\* first reserved-keyword comment of the source deserializes to a record with
\* a non-empty 'by'; then the result carries that 'by', no error is returned,
\* only the read and the check have run and the file system is untouched.
C1_AlreadyOptimized ==
    (Returned /\ Source # NoFile /\ Source.parse) =>
        LET c == FirstReserved(Source)
            hit == c # Nil /\ c.By # ""
        IN  /\ hit <=> (ret.result # Nil /\ ret.result.AlreadyOptimized)
            /\ hit => /\ ret.err = Nil
                      /\ ret.result.AlreadyOptimizedBy = c.By
                      /\ steps = <<"read", "check">>
                      /\ fs = fsBefore
            /\ ~hit => Took("strip")

C1_Witness ==
    /\ ReturnedResult
    /\ ret.result.AlreadyOptimized
    /\ ret.result.AlreadyOptimizedBy = "other-tool"

\* C2: a call whose source is a file a completed run wrote returns, at every
\* quality level and from either entry point, AlreadyOptimized = true with
\* AlreadyOptimizedBy = "LightFile", and writes nothing.
C2_NeverReprocessed ==
    (Returned /\ srcProduced) =>
        /\ ret.err = Nil
        /\ ret.result # Nil
        /\ ret.result.AlreadyOptimized
        /\ ret.result.AlreadyOptimizedBy = "LightFile"
        /\ steps = <<"read", "check">>
        /\ fs = fsBefore

C2_Witness ==
    /\ ReturnedResult
    /\ srcProduced
    /\ Quality = "force"
    /\ ret.result.AlreadyOptimized

\* C5: isAcceptablePSNR agrees with the threshold table on every pair: an
\* infinite score passes at every level, "force" passes every score, "high"
\* passes from 45, "low" from 39 and every other quality string from 42.
C5_ThresholdTable ==
    gate.set =>
        (gate.result <=>
            \/ gate.score.inf
            \/ gate.quality = "force"
            \/ gate.quality = "high" /\ gate.score.mdb >= 45000
            \/ gate.quality = "low" /\ gate.score.mdb >= 39000
            \/ gate.quality \notin {"high", "low", "force"}
                 /\ gate.score.mdb >= 42000)

C5_Witness ==
    /\ gate.set
    /\ gate.quality = "high"
    /\ gate.score = Finite(45000)
    /\ gate.result

\* the bytes the quantize step was given: the stripped bytes, or the
\* source's when stripping failed
QuantizeInput ==
    IF output.StripError # Nil THEN originalData ELSE Strip(originalData)

\* C3: once Build-and-Size-Check has run, if working size + embed cost >=
\* original size the call has returned a result with CantOptimize = true and
\* no error, the file system is as it was, and BeforeSize, SizeAfterStrip and
\* SizeAfterPNGQuant are on the result; if the sum is strictly smaller the
\* call has gone on to Embed.
C3_SizeCheck ==
    Took("build") =>
        LET cost == BuildComment(comment).size
        IN  IF output.SizeAfterPNGQuant + cost >= output.BeforeSize
            THEN /\ ReturnedResult
                 /\ LastStep = "build"
                 /\ ret.result.CantOptimize
                 /\ fs = fsBefore
                 /\ ret.result.BeforeSize = FileLen(Source)
                 /\ ret.result.SizeAfterStrip = FileLen(QuantizeInput)
                 /\ ret.result.SizeAfterPNGQuant = FileLen(pngData)
            ELSE /\ pc = "embed" \/ Took("embed")
                 /\ ~output.CantOptimize

C3_Witness ==
    /\ ReturnedResult
    /\ ret.result.CantOptimize
    /\ ret.result.SizeAfterPNGQuant + BuildComment(comment).size
         = ret.result.BeforeSize
    /\ ret.result.SizeAfterStrip < ret.result.BeforeSize

C6_IndexedColorNoOp ==
    (entry = "Run" /\ Took("quantize") /\ Decode(QuantizeInput).ok
       /\ Decode(QuantizeInput).layout = "palette") =>
        /\ ~output.PNGQuant.Applied
        /\ output.PNGQuant.PSNR = ZeroScore
        /\ pc = "score" => pngData = QuantizeInput

\* C7: from either entry point, once the quantize step has run the call has
\* gone on to Compute-Final-Score; a failure inside the step is on the result
\* as PNGQuantError with PNGQuant.Applied false and the working bytes are the
\* pre-quantization bytes.
C7_QuantizeSoftFail ==
    Took("quantize") =>
        /\ pc = "score" \/ Took("score")
        /\ output.PNGQuantError # Nil =>
              /\ ~output.PNGQuant.Applied
              /\ pc = "score" => pngData = QuantizeInput

\* C8: once the strip step has run the call has gone on to the quantize
\* step; when the collaborator failed, StripError is a DataError, Strip is
\* nil, the working bytes are the source's and SizeAfterStrip = BeforeSize;
\* when it succeeded, StripError is nil, the working bytes are the stripped
\* bytes and SizeAfterStrip is their length.
C8_StripSoftFail ==
    Took("strip") =>
        /\ pc = "quantize" \/ Took("quantize")
        /\ output.StripError # Nil =>
              /\ AsDataError(output.StripError)
              /\ output.Strip = Nil
              /\ output.SizeAfterStrip = output.BeforeSize
              /\ pc = "quantize" => pngData = originalData
        /\ output.StripError = Nil =>
              /\ output.Strip # Nil
              /\ output.SizeAfterStrip = FileLen(Strip(originalData))
              /\ pc = "quantize" => pngData = Strip(originalData)
        /\ (Returned /\ ret.err # Nil) => LastStep # "strip"

C8_Witness ==
    /\ ReturnedResult
    /\ ret.result.StripError # Nil
    /\ ret.result.Strip = Nil
    /\ ret.result.SizeAfterStrip = ret.result.BeforeSize
    /\ ret.result.AfterSize > 0

\* C9: a call on a source whose bytes do not parse as a container returns no
\* result and an error that is a wrapping layer around a DataError, having
\* run only the read and the check; ReadComment on the same bytes returns no
\* comment and a DataError.
C9_UnparseableIsDataError ==
    (Returned /\ Source # NoFile /\ ~Source.parse) =>
        /\ ret.result = Nil
        /\ ret.err # Nil
        /\ Len(ret.err.layers) = 2
        /\ ret.err.layers[1].type = "wrap"
        /\ AsDataError(ret.err)
        /\ steps = <<"read", "check">>
        /\ fs = fsBefore
        /\ ReadComment(Source).comment = Nil
        /\ ReadComment(Source).raw = NoText
        /\ AsDataError(ReadComment(Source).err)

C9_Witness ==
    /\ ReturnedError
    /\ Source = Garbage(0)
    /\ entry = "Optimize"
    /\ AsDataError(ret.err)

\* C10: a call whose source cannot be read, whose destination cannot be
\* written or whose destination cannot be stat-ed returns no result and an
\* error that is not a DataError; a write into a missing directory always
\* fails; no directory is ever created and no step runs twice in a call.
C10_IoFailuresAreSystemErrors ==
    /\ (Returned /\ Source = NoFile) =>
          /\ ReturnedError
          /\ ~AsDataError(ret.err)
          /\ steps = <<"read">>
          /\ fs = fsBefore
    /\ (Took("commit") /\ DirOf(destPath) \notin dirs) =>
          /\ ReturnedError
          /\ LastStep = "commit"
          /\ ~AsDataError(ret.err)
          /\ fs = fsBefore
    /\ (Returned /\ LastStep = "commit") => DirOf(destPath) \notin dirs
    /\ (Returned /\ LastStep = "stat" /\ fs[destPath] = NoFile) =>
          /\ ReturnedError
          /\ ~AsDataError(ret.err)
    /\ dirs = {".", "out"}
    /\ \A i, j \in 1..Len(steps) : steps[i] = steps[j] => i = j

C10_Witness ==
    /\ ReturnedError
    /\ LastStep = "commit"
    /\ destPath = "gone/b.png"
    /\ ~AsDataError(ret.err)
    /\ fs[destPath] = NoFile

\* ------------------------------------------------ the comment codec alone
\* One container and one record drawn at the start; the codec writes the
\* record into the container and reads it back, or reads the container as
\* it is.  entry names the codec: PNGMetaManager or comment.go.
CodecContainers ==
    SourceFiles \cup
    { Container(<<IHDR, LightFile(ValidText("other-tool")), IDAT(TrueColor),
                  LightFile(RawText(14)), LightFile(ValidText("LightFile")),
                  IEND>>),
      Container(<<IHDR, Software(73), IDAT(TrueColor), LightFile(NoText), IEND>>),
      Container(<<IHDR, IDAT(TrueColor), tIME, IEND>>) }

CodecScores == {Inf, Finite(0), Finite(43 * Milli + 500), Finite(27 * Milli + 123)}

CodecComments ==
    { LightFileComment(by, sz[1], sz[2], q, sc) :
        by \in {"", "LightFile", "lightfile6-png-test", QuotedBy, ReplacedBy,
                InvalidUTF8By},
        sz \in {<<0, 0>>, <<2048, 1536>>},
        q \in BOOLEAN,
        sc \in CodecScores }

Codecs == {"PNGMetaManager", "comment.go"}

InitCodec ==
    /\ fs = [p \in Paths |-> NoFile]
    /\ dirs = {".", "out"}
    /\ runs = 0
    /\ produced = {}
    /\ pc = "codec"
    /\ entry \in Codecs
    /\ Quality = ""
    /\ srcPath = "in.png"
    /\ destPath = "out/a.png"
    /\ srcProduced = FALSE
    /\ fsBefore = fs
    /\ steps = <<>>
    /\ pngData = Nil
    /\ originalData \in CodecContainers
    /\ finalPSNR = ZeroScore
    /\ comment \in CodecComments
    /\ output = ZeroOutput
    /\ ret = NoRet
    /\ gate = NoGate
    /\ logger = Nil
    /\ collab = Nil

\* what ReadComment hands back, as one result and an error
ReadResult(r) == Return([comment |-> r.comment, raw |-> r.raw], r.err)

\* WriteComment(originalData, comment)
WriteStep ==
    /\ pc = "codec"
    /\ pc' = "written"
    /\ LET w == IF entry = "PNGMetaManager"
                THEN WriteComment(originalData, comment)
                ELSE CommentGoWriteComment(originalData,
                                           CommentGoBuildComment(comment).text)
       IN  /\ pngData' = w.data
           /\ ret' = Return(w.data, w.err)
    /\ UNCHANGED <<fs, dirs, runs, produced, entry, Quality, srcPath, destPath,
                   srcProduced, fsBefore, steps, originalData, finalPSNR,
                   comment, output, gate, logger, collab>>

\* ReadComment of the bytes WriteComment returned
ReadBack ==
    /\ pc = "written"
    /\ entry = "PNGMetaManager"
    /\ ret.err = Nil
    /\ pc' = "readback"
    /\ ret' = ReadResult(ReadComment(pngData))
    /\ UNCHANGED <<fs, dirs, runs, produced, entry, Quality, srcPath, destPath,
                   srcProduced, fsBefore, steps, pngData, originalData,
                   finalPSNR, comment, output, gate, logger, collab>>

\* ReadComment of the container as it is
ReadSource ==
    /\ pc = "codec"
    /\ entry = "PNGMetaManager"
    /\ pc' = "read"
    /\ ret' = ReadResult(ReadComment(originalData))
    /\ UNCHANGED <<fs, dirs, runs, produced, entry, Quality, srcPath, destPath,
                   srcProduced, fsBefore, steps, pngData, originalData,
                   finalPSNR, comment, output, gate, logger, collab>>

NextCodec == WriteStep \/ ReadBack \/ ReadSource

SpecCodec == InitCodec /\ [][NextCodec]_vars

\* a container the codec can write into: it parses and has its IEND chunk
ValidContainer(d) ==
    d.parse /\ \E i \in 1..Len(d.chunks) : d.chunks[i].Type = "IEND"

\* the number of reserved-keyword chunks of a chunk sequence
Reserved(chunks) == Cardinality({ i \in 1..Len(chunks) : IsLightFileChunk(chunks[i]) })

\* C11 as claimed: for every valid container and every record, any 'by'
\* included, ReadComment(WriteComment(d, c)) returns no error, a record equal
\* to c and the text BuildComment produces for c.
C11_RoundTripAnyBy ==
    (entry = "PNGMetaManager" /\ ValidContainer(originalData)
       /\ pc \in {"written", "readback"}) =>
        /\ ret.err = Nil
        /\ pc = "readback" =>
              /\ ret.result.comment = comment
              /\ ret.result.raw = BuildComment(comment).text

\* C11: for every valid container and every record whose 'by' is valid UTF-8
\* (any before, after, pngquant, and any finite or infinite score),
\* ReadComment(WriteComment(d, c)) returns no error, a record equal to c in
\* all five fields and the text BuildComment produces for c.
C11_RoundTrip ==
    (entry = "PNGMetaManager" /\ ValidContainer(originalData)
       /\ comment.By # InvalidUTF8By /\ pc \in {"written", "readback"}) =>
        /\ ret.err = Nil
        /\ pc = "readback" =>
              /\ ret.result.comment # Nil
              /\ ret.result.comment.By = comment.By
              /\ ret.result.comment.Before = comment.Before
              /\ ret.result.comment.After = comment.After
              /\ ret.result.comment.PNGQuant = comment.PNGQuant
              /\ ret.result.comment.PSNR = comment.PSNR
              /\ ret.result.raw = BuildComment(comment).text

C11_Witness ==
    /\ pc = "readback"
    /\ entry = "PNGMetaManager"
    /\ Reserved(originalData.chunks) = 3
    /\ comment = LightFileComment(QuotedBy, 2048, 1536, TRUE, Inf)
    /\ ret.result.comment = comment

\* C12: after Write-Comment on a valid container, however many reserved
\* chunks the input had, the output holds exactly one reserved chunk, that
\* chunk holds the given text and sits immediately before the terminal IEND
\* chunk.
C12_ExactlyOneComment ==
    (pc = "written" /\ ret.err = Nil) =>
        LET cs == pngData.chunks
            given == IF entry = "PNGMetaManager"
                     THEN BuildComment(comment).text
                     ELSE CommentGoBuildComment(comment).text
        IN  /\ Reserved(cs) = 1
            /\ Len(cs) >= 2
            /\ cs[Len(cs)].Type = "IEND"
            /\ cs[Len(cs) - 1] = Chunk("tEXt", TextData("LightFile", given))

\* C13: the count PNGMetaManager.BuildComment returns for a record is
\* 13 + len("LightFile") + len(text), and WriteComment on a valid container
\* with no reserved chunk returns bytes longer than the input by exactly
\* that count.
C13_EmbedCostIsGrowth ==
    entry = "PNGMetaManager" =>
        LET built == BuildComment(comment)
        IN  /\ built.err = Nil
            /\ built.size = 13 + Len("LightFile") + TextLen(built.text)
            /\ (pc = "written" /\ ValidContainer(originalData)
                  /\ Reserved(originalData.chunks) = 0) =>
                  /\ ret.err = Nil
                  /\ FileLen(pngData) = FileLen(originalData) + built.size

C13_Witness ==
    /\ pc = "written"
    /\ entry = "PNGMetaManager"
    /\ originalData = Container(<<IHDR, Software(73), IDAT(TrueColor), IEND>>)
    /\ comment = LightFileComment(InvalidUTF8By, 2048, 1536, FALSE,
                                  Finite(27 * Milli + 123))
    /\ FileLen(pngData) = FileLen(originalData) + 22 + 77

\* C14: ReadComment returns an error only when the container does not parse;
\* when the first reserved chunk's text does not deserialize it returns no
\* record, that text and no error; when there is no reserved chunk it
\* returns no record, the empty text and no error.
C14_PayloadNeverAnError ==
    (pc = "read") =>
        LET d == originalData
            i == FirstIndex(LightFileHits(d.chunks))
        IN  /\ (ret.err # Nil) <=> ~d.parse
            /\ ~d.parse => AsDataError(ret.err) /\ ret.result.comment = Nil
            /\ (d.parse /\ i = 0) =>
                  ret.result.comment = Nil /\ ret.result.raw = NoText
            /\ (d.parse /\ i # 0 /\ ~Unmarshal(d.chunks[i].Data.text).ok) =>
                  /\ ret.result.comment = Nil
                  /\ ret.result.raw = d.chunks[i].Data.text
            /\ (d.parse /\ i # 0 /\ Unmarshal(d.chunks[i].Data.text).ok) =>
                  /\ ret.result.comment # Nil
                  /\ ret.result.raw = d.chunks[i].Data.text

C14_Witness ==
    /\ pc = "read"
    /\ originalData = Container(<<IHDR, LightFile(RawText(14)), IDAT(TrueColor), IEND>>)
    /\ ret = Return([comment |-> Nil, raw |-> RawText(14)], Nil)

\* ------------------------------------------------- the MaybeInf codec alone
\* The bytes of a JSON number, one character per element.  Scores are
\* thousandths, so a number has at most three fraction digits; encoding/json
\* writes a float64 in strconv's shortest form that reads back exactly.
DigitChars == <<"0", "1", "2", "3", "4", "5", "6", "7", "8", "9">>
NullToken == <<"n", "u", "l", "l">>

Abs(m) == IF m < 0 THEN 0 - m ELSE m

RECURSIVE NatChars(_)
NatChars(n) ==
    IF n < 10 THEN <<DigitChars[n + 1]>>
    ELSE NatChars(n \div 10) \o <<DigitChars[(n % 10) + 1]>>

\* the fraction f/1000 with its point, trailing zeros dropped
FracChars(f) ==
    LET d1 == DigitChars[(f \div 100) + 1]
        d2 == DigitChars[((f \div 10) % 10) + 1]
        d3 == DigitChars[(f % 10) + 1]
    IN  IF f = 0 THEN <<>>
        ELSE IF f % 10 # 0 THEN <<".", d1, d2, d3>>
        ELSE IF f % 100 # 0 THEN <<".", d1, d2>>
        ELSE <<".", d1>>

\* the number written with two fraction digits, as the log lines write it
FormatFloatTwoDigits(m) ==
    (IF m < 0 THEN <<"-">> ELSE <<>>)
      \o NatChars(Abs(m) \div Milli)
      \o FracChars(((Abs(m) % Milli) \div 10) * 10)

\* json.Marshal(float64(m)) of m/1000
FormatFloat(m) ==
    (IF m < 0 THEN <<"-">> ELSE <<>>)
      \o NatChars(Abs(m) \div Milli)
      \o FracChars(Abs(m) % Milli)

IsDigits(cs) == \A i \in 1..Len(cs) : \E d \in 1..10 : DigitChars[d] = cs[i]
DigitVal(c) == (CHOOSE d \in 1..10 : DigitChars[d] = c) - 1

RECURSIVE NatVal(_)
NatVal(cs) ==
    IF cs = <<>> THEN 0
    ELSE NatVal(SubSeq(cs, 1, Len(cs) - 1)) * 10 + DigitVal(cs[Len(cs)])

\* json.Unmarshal(data, &f) for a float64 f: [ok, mdb]
ParseFloat(data) ==
    LET neg == data # <<>> /\ data[1] = "-"
        body == IF neg THEN Tail(data) ELSE data
        dot == IF \E i \in 1..Len(body) : body[i] = "."
               THEN CHOOSE i \in 1..Len(body) :
                      body[i] = "." /\ \A j \in 1..(i - 1) : body[j] # "."
               ELSE 0
        ip == IF dot = 0 THEN body ELSE SubSeq(body, 1, dot - 1)
        fp == IF dot = 0 THEN <<>> ELSE SubSeq(body, dot + 1, Len(body))
        ok == /\ ip # <<>>
              /\ IsDigits(ip)
              /\ Len(ip) > 1 => ip[1] # "0"
              /\ dot # 0 => fp # <<>>
              /\ IsDigits(fp)
              /\ Len(fp) <= 3
        scaled == IF Len(fp) = 0 THEN 0
                  ELSE IF Len(fp) = 1 THEN NatVal(fp) * 100
                  ELSE IF Len(fp) = 2 THEN NatVal(fp) * 10
                  ELSE NatVal(fp)
        abs == NatVal(ip) * Milli + scaled
    IN  IF ~ok THEN [ok |-> FALSE, mdb |-> 0]
        ELSE [ok |-> TRUE, mdb |-> IF neg THEN 0 - abs ELSE abs]

\* MaybeInf.MarshalJSON: the bytes
MarshalJSON(m) == IF m.inf THEN NullToken ELSE FormatFloat(m.mdb)

\* MaybeInf.UnmarshalJSON: [err, m]; m is the receiver afterwards, the zero
\* value when the bytes are rejected
UnmarshalJSON(data) ==
    IF data = NullToken THEN [err |-> Nil, m |-> Inf]
    ELSE LET p == ParseFloat(data)
         IN  IF ~p.ok
             THEN [err |-> PlainError("json: cannot unmarshal"), m |-> ZeroScore]
             ELSE [err |-> Nil, m |-> Finite(p.mdb)]

MaybeInfValues ==
    {Inf} \cup { Finite(m) : m \in (0 - 30)..130 }
          \cup { Finite(m) : m \in {0 - 27123, 0 - 1000, 999, 1000, 1001, 1010,
                                    1100, 27000, 27123, 35000, 43500, 44999,
                                    45000, 99990, 100000, 123456} }

MaybeInfTokens ==
    { NullToken, <<"0">>, <<"4", "2">>, <<"4", "2", ".", "5">>,
      <<"-", "0", ".", "0", "0", "1">>, <<"4", "2", ".">>, <<"0", "7">>,
      <<"n", "u", "l">>, <<>>, <<".", "5">>, <<"4", ".", "2", ".", "1">> }

InitMaybeInf ==
    /\ fs = [p \in Paths |-> NoFile]
    /\ dirs = {".", "out"}
    /\ runs = 0
    /\ produced = {}
    /\ entry = "MaybeInf"
    /\ Quality = ""
    /\ srcPath = "in.png"
    /\ destPath = "out/a.png"
    /\ srcProduced = FALSE
    /\ fsBefore = fs
    /\ steps = <<>>
    /\ originalData = Nil
    /\ comment = Nil
    /\ output = ZeroOutput
    /\ ret = NoRet
    /\ gate = NoGate
    /\ logger = Nil
    /\ collab = Nil
    /\ \/ pc = "value" /\ finalPSNR \in MaybeInfValues /\ pngData = Nil
       \/ pc = "token" /\ finalPSNR = ZeroScore /\ pngData \in MaybeInfTokens

\* data, err := m.MarshalJSON()
MarshalStep ==
    /\ pc = "value"
    /\ pc' = "token"
    /\ Step("marshal")
    /\ pngData' = MarshalJSON(finalPSNR)
    /\ UNCHANGED <<fs, dirs, runs, produced, entry, Quality, srcPath, destPath,
                   srcProduced, fsBefore, originalData, finalPSNR, comment,
                   output, ret, gate, logger, collab>>

\* var m MaybeInf; err := m.UnmarshalJSON(data)
UnmarshalStep ==
    /\ pc = "token"
    /\ pc' = "decoded"
    /\ Step("unmarshal")
    /\ LET u == UnmarshalJSON(pngData)
       IN  ret' = Return(u.m, u.err)
    /\ UNCHANGED <<fs, dirs, runs, produced, entry, Quality, srcPath, destPath,
                   srcProduced, fsBefore, pngData, originalData, finalPSNR,
                   comment, output, gate, logger, collab>>

NextMaybeInf == MarshalStep \/ UnmarshalStep

SpecMaybeInf == InitMaybeInf /\ [][NextMaybeInf]_vars

\* C15: MarshalJSON of positive infinity is the token null and of no finite
\* value; UnmarshalJSON of null is positive infinity; for every finite value
\* v, UnmarshalJSON(MarshalJSON(v)) returns no error and v exactly.
C15_MaybeInfCodec ==
    /\ Took("marshal") => (pngData = NullToken <=> finalPSNR.inf)
    /\ (pc = "decoded" /\ pngData = NullToken) =>
          ret.err = Nil /\ ret.result = Inf
    /\ (pc = "decoded" /\ Took("marshal")) =>
          ret.err = Nil /\ ret.result = finalPSNR

C15_Witness ==
    /\ pc = "decoded"
    /\ steps = <<"marshal", "unmarshal">>
    /\ finalPSNR = Finite(27123)
    /\ pngData = <<"2", "7", ".", "1", "2", "3">>
    /\ ret = Return(Finite(27123), Nil)

\* ------------------------------------------------------- PngPsnr alone
\* What image/png decodes for PngPsnr: the colour model of the image type
\* (image.NRGBA for a truecolour PNG with alpha, image.RGBA for an opaque
\* one), the width and height (bounds start at 0,0) and the stored 8-bit
\* samples of each pixel, row by row.
Pixel(r, g, b, a) == [R |-> r, G |-> g, B |-> b, A |-> a]
Picture(model, w, h, pix) == [model |-> model, w |-> w, h |-> h, pix |-> pix]

\* the bytes given to PngPsnr: they decode to a picture, or do not decode
Encoded(img) == [decodes |-> TRUE, img |-> img]
Undecodable == [decodes |-> FALSE, img |-> Picture("none", 0, 0, <<>>)]

\* loadPngFromBytes: [err, img]
loadPngFromBytes(data) ==
    IF ~data.decodes
    THEN [err |-> PlainError("png: failed to decode as png"), img |-> data.img]
    ELSE [err |-> Nil, img |-> data.img]

\* img.At(x, y): the pixel, the zero colour outside the bounds
At(img, x, y) ==
    IF x < img.w /\ y < img.h THEN img.pix[y * img.w + x + 1]
    ELSE Pixel(0, 0, 0, 0)

\* color.Color.RGBA(): 16-bit alpha-premultiplied samples.  color.RGBA holds
\* premultiplied samples and widens them; color.NRGBA multiplies each sample
\* by alpha first.
RGBA(model, c) ==
    IF model = "NRGBA"
    THEN [r |-> (c.R * 257 * c.A) \div 255, g |-> (c.G * 257 * c.A) \div 255,
          b |-> (c.B * 257 * c.A) \div 255, a |-> c.A * 257]
    ELSE [r |-> c.R * 257, g |-> c.G * 257, b |-> c.B * 257, a |-> c.A * 257]

\* (d*d)>>16 in int64, where the square of a 16-bit difference fits; the
\* square is taken in two halves, d = 256*hi + lo, to stay within the
\* checker's integers
ShiftedSquare(d) ==
    LET hi == Abs(d) \div 256
        lo == Abs(d) % 256
    IN  hi * hi + (512 * hi * lo + lo * lo) \div 65536

\* the loops over img1's bounds from pixel k on: sum += ...
RECURSIVE Accumulate(_, _, _)
Accumulate(img1, img2, k) ==
    IF k >= img1.w * img1.h THEN 0
    ELSE LET x == k % img1.w
             y == k \div img1.w
             c1 == RGBA(img1.model, At(img1, x, y))
             c2 == RGBA(img2.model, At(img2, x, y))
         IN  ShiftedSquare(c1.r - c2.r) + ShiftedSquare(c1.g - c2.g)
               + ShiftedSquare(c1.b - c2.b) + Accumulate(img1, img2, k + 1)

\* 10 * log10(255*255 / (sum / n)), kept as the two numbers it is computed
\* from
MseScore(sum, n) == [inf |-> FALSE, sum |-> sum, n |-> n]

\* PngPsnr(data1, data2): [psnr, err]
PngPsnr(data1, data2) ==
    LET l1 == loadPngFromBytes(data1)
        l2 == loadPngFromBytes(data2)
        sum == Accumulate(l1.img, l2.img, 0)
    IN  IF l1.err # Nil
        THEN [psnr |-> ZeroScore, err |-> PlainError("png: failed to decode as png")]
        ELSE IF l2.err # Nil
        THEN [psnr |-> ZeroScore, err |-> PlainError("png: failed to decode as png")]
        ELSE IF sum = 0 THEN [psnr |-> Inf, err |-> Nil]
        ELSE [psnr |-> MseScore(sum, l1.img.w * l1.img.h * 3), err |-> Nil]

Red == Pixel(200, 0, 0, 255)
RedHalf == Pixel(200, 0, 0, 128)
RedFaint == Pixel(200, 0, 0, 1)
DarkFaint == Pixel(10, 0, 0, 1)
RedOff == Pixel(199, 0, 0, 255)
Black == Pixel(0, 0, 0, 255)
White == Pixel(255, 255, 255, 255)

PsnrInputs ==
    {Undecodable}
      \cup { Encoded(Picture("NRGBA", 1, 1, <<c>>)) :
               c \in {Red, RedHalf, RedFaint, DarkFaint, RedOff, Black, White} }
      \cup { Encoded(Picture("RGBA", 1, 1, <<c>>)) : c \in {Red, RedOff, Black, White} }
      \cup { Encoded(Picture("NRGBA", 2, 1, <<Red, Black>>)),
             Encoded(Picture("NRGBA", 2, 1, <<Red, White>>)),
             Encoded(Picture("NRGBA", 2, 1, <<RedHalf, Black>>)),
             Encoded(Picture("NRGBA", 1, 2, <<Red, Black>>)) }

InitPsnr ==
    /\ fs = [p \in Paths |-> NoFile]
    /\ dirs = {".", "out"}
    /\ runs = 0
    /\ produced = {}
    /\ pc = "psnr"
    /\ entry = "PngPsnr"
    /\ Quality = ""
    /\ srcPath = "in.png"
    /\ destPath = "out/a.png"
    /\ srcProduced = FALSE
    /\ fsBefore = fs
    /\ steps = <<>>
    /\ originalData \in PsnrInputs
    /\ pngData \in PsnrInputs
    /\ finalPSNR = ZeroScore
    /\ comment = Nil
    /\ output = NoRet
    /\ ret = NoRet
    /\ gate = NoGate
    /\ logger = Nil
    /\ collab = Nil

\* ret := PngPsnr(originalData, pngData)
ComputePsnr ==
    /\ pc = "psnr"
    /\ pc' = "scored"
    /\ LET r == PngPsnr(originalData, pngData)
       IN  ret' = Return(r.psnr, r.err)
    /\ UNCHANGED <<fs, dirs, runs, produced, entry, Quality, srcPath, destPath,
                   srcProduced, fsBefore, steps, pngData, originalData,
                   finalPSNR, comment, output, gate, logger, collab>>

\* output := PngPsnr(pngData, originalData), the arguments exchanged
ComputeSwapped ==
    /\ pc = "scored"
    /\ pc' = "swapped"
    /\ LET r == PngPsnr(pngData, originalData)
       IN  output' = Return(r.psnr, r.err)
    /\ UNCHANGED <<fs, dirs, runs, produced, entry, Quality, srcPath, destPath,
                   srcProduced, fsBefore, steps, pngData, originalData,
                   finalPSNR, comment, ret, gate, logger, collab>>

NextPsnr == ComputePsnr \/ ComputeSwapped

SpecPsnr == InitPsnr /\ [][NextPsnr]_vars

\* the same bytes with every pixel made opaque
Opaque(data) ==
    [data EXCEPT !.img.pix =
        [i \in 1..Len(data.img.pix) |->
            [data.img.pix[i] EXCEPT !.A = 255]]]

SameDimensions(d1, d2) ==
    /\ d1.decodes /\ d2.decodes
    /\ d1.img.w = d2.img.w /\ d1.img.h = d2.img.h

\* C16: for decoded images of identical dimensions PngPsnr(A, B) equals
\* PngPsnr(B, A), PngPsnr(A, A) is +Infinity, the result is +Infinity exactly
\* when the accumulated sum of the shifted squared differences is zero, and
\* alpha does not affect the result: it is the result for the same pixels
\* made opaque.
C16_SymmetricAlphaFree ==
    (pc = "swapped" /\ SameDimensions(originalData, pngData)) =>
        /\ ret.err = Nil
        /\ ret = output
        /\ originalData = pngData => ret.result = Inf
        /\ ret.result = Inf <=>
              Accumulate(originalData.img, pngData.img, 0) = 0
        /\ ret.result = PngPsnr(Opaque(originalData), Opaque(pngData)).psnr

\* C17: PngPsnr returns a DataError when the two decoded images have
\* different bounds and when either input fails to decode.
C17_MetricDataErrors ==
    (pc = "scored") =>
        /\ (originalData.decodes /\ pngData.decodes
              /\ ~SameDimensions(originalData, pngData)) =>
              ret.err # Nil /\ AsDataError(ret.err)
        /\ (~originalData.decodes \/ ~pngData.decodes) =>
              ret.err # Nil /\ AsDataError(ret.err)

\* ------------------------------------------------- forced quantization
\* the run's quantization succeeded and scored about 27 dB against its input
ScoredAbout27 ==
    /\ Took("quantize")
    /\ output.PNGQuantError = Nil
    /\ output.PNGQuant.PSNR = Finite(27 * Milli)

\* the quantized bytes with the comment embedded are smaller than the source
ShrinksWithComment ==
    /\ comment # Nil
    /\ ~CantShrink(output.SizeAfterPNGQuant, BuildComment(comment).size,
                   output.BeforeSize)

\* C18: at quality "force" a quantization that succeeded is applied whatever
\* its score, and the run then completes normally: when the quantization
\* scored about 27 dB (and the quantized bytes are small enough to shrink the
\* file) the returned result has PNGQuant.Applied = true, InspectionFailed =
\* false, CantOptimize = false, AfterSize > 0, and the destination file
\* exists and carries the LightFile comment.
C18_ForceCompletes ==
    (ReturnedResult /\ Quality = "force" /\ ScoredAbout27 /\ ShrinksWithComment)
       => /\ output.PNGQuant.Applied
          /\ ~output.InspectionFailed
          /\ ~output.CantOptimize
          /\ output.AfterSize > 0
          /\ fs[destPath] # NoFile
          /\ FirstReserved(fs[destPath]) # Nil
          /\ FirstReserved(fs[destPath]).By = "LightFile"

\* ------------------------------------------ the comment of a written file
\* C19: the destination file of a run that wrote it and returned its result
\* carries a comment record with by = "LightFile", before = BeforeSize,
\* after = the size of the working bytes before the comment was embedded
\* (= SizeAfterPNGQuant, at most AfterSize), pngquant = PNGQuant.Applied and
\* psnr = the final score computed between the original and the working bytes.
C19_CommentRecord ==
    (ReturnedResult /\ LastStep = "stat") =>
        /\ fs[destPath] # NoFile
        /\ FirstReserved(fs[destPath]) # Nil
        /\ LET c == FirstReserved(fs[destPath])
               result == ret.result
           IN  /\ c.By = "LightFile"
               /\ c.Before = result.BeforeSize
               /\ c.After = result.SizeAfterPNGQuant
               /\ c.After <= result.AfterSize
               /\ c.PNGQuant = result.PNGQuant.Applied
               /\ c.PSNR = finalPSNR

\* a quantized file was written: the comment says so, with a finite score
\* and a size below that of the stripped bytes
C19_Witness ==
    /\ ReturnedResult
    /\ LastStep = "stat"
    /\ ret.result.PNGQuant.Applied
    /\ FirstReserved(fs[destPath]).PNGQuant
    /\ FirstReserved(fs[destPath]).PSNR = Finite(40 * Milli)
    /\ FirstReserved(fs[destPath]).After < ret.result.SizeAfterStrip
    /\ FirstReserved(fs[destPath]).After < ret.result.AfterSize

\* ------------------------------------------------------- concurrent runs
\* Two goroutines, each calling Run once, on different source and
\* destination paths.  In this specification pc, steps, ret, Quality, srcPath,
\* destPath and collab are functions of the goroutine; pngData, originalData,
\* finalPSNR, comment and output are functions of the place that holds a
\* run's local variables; fs, dirs and logger are shared.
Procs == {"A", "B"}

\* every run's locals in one place
LocalShared(p) == "A"

\* output := OptimizePNGOutput{}; pngData, err := os.ReadFile(srcPath); ...:
\* the place that holds the local variables of p's call
Local(p) == p

ParPaths == {"in.png", "in2.png", "out/a.png", "out/b.png"}
ParSrc == [A |-> "in.png", B |-> "in2.png"]
ParDest == [A |-> "out/a.png", B |-> "out/b.png"]

ParSources ==
    { NoFile,
      Container(<<IHDR, tIME, Software(200), IDAT(TrueColor), IEND>>),
      Container(<<IHDR, Software(74), IDAT(TrueColor), IEND>>),
      Container(<<IHDR, LightFile(ValidText("LightFile")), IDAT(TrueColor), IEND>>) }

ParQualities == {"", "force"}

ParEngines ==
    { Engine(QualityTooLow, 0, 0, 0, FALSE),
      Engine(LIQ_OK, 2, 100, 40 * Milli, TRUE) }

\* what the collaborators hand one run: whether Strip succeeds, and what the
\* quantization engine returns
Collabs == [strip : BOOLEAN, eng : ParEngines]

\* Run(src, dest) at quality q, on its own, from file system fsys:
\* [ret, fs], the call's return and the file system it leaves
RunAlone(q, src, dest, co, fsys, dirset) ==
    LET rd == ReadFile(fsys, src)
        out1 == [ZeroOutput EXCEPT !.BeforeSize = FileLen(rd.data)]
        rc == ReadComment(rd.data)
        st == StripStep(rd.data, out1, co.strip)
        qz == QuantizeStep("Run", q, st.data, st.out, co.eng)
        sc == Compute(rd.data, qz.data)
        cm == NewComment(qz.out, qz.data, sc.score)
        built == BuildComment(cm)
        wc == WriteComment(qz.data, cm)
        out2 == [qz.out EXCEPT !.FinalPSNR = sc.score]
        wf == WriteFile(fsys, dirset, dest, wc.data)
        sd == Stat(wf.fs, dest)
        Stop(result, err) == [ret |-> Return(result, err), fs |-> fsys]
    IN  IF rd.err # Nil
        THEN Stop(Nil, Wrap("failed to read PNG file", rd.err))
        ELSE IF rc.err # Nil
        THEN Stop(Nil, Wrap("failed to read PNG comment", rc.err))
        ELSE IF IsAlreadyOptimized(rc.comment)
        THEN Stop([out1 EXCEPT !.AlreadyOptimized = TRUE,
                               !.AlreadyOptimizedBy = rc.comment.By], Nil)
        ELSE IF qz.abort # Nil THEN Stop(Nil, qz.abort)
        ELSE IF ~sc.ok
        THEN Stop(Nil, NewDataError("failed to calculate final PSNR"))
        ELSE IF built.err # Nil
        THEN Stop(Nil, Wrap("failed to build comment", built.err))
        ELSE IF CantShrink(FileLen(qz.data), built.size, qz.out.BeforeSize)
        THEN Stop([qz.out EXCEPT !.CantOptimize = TRUE], Nil)
        ELSE IF wc.err # Nil
        THEN Stop(Nil, Wrap("failed to write comment", wc.err))
        ELSE IF FailsInspection(sc.score)
        THEN Stop([out2 EXCEPT !.InspectionFailed = TRUE], Nil)
        ELSE IF wf.err # Nil
        THEN Stop(Nil, Wrap("failed to write optimized PNG", wf.err))
        ELSE IF sd.err # Nil
        THEN [ret |-> Return(Nil, Wrap("failed to stat destination file", sd.err)),
              fs |-> wf.fs]
        ELSE [ret |-> Return([out2 EXCEPT !.AfterSize = sd.size], Nil),
              fs |-> wf.fs]

InitPar ==
    /\ \E fa \in ParSources, fb \in ParSources :
          fs = [p \in ParPaths |-> IF p = "in.png" THEN fa
                                   ELSE IF p = "in2.png" THEN fb ELSE NoFile]
    /\ dirs = {".", "out"}
    /\ runs = 0
    /\ produced = {}
    /\ pc = [p \in Procs |-> "idle"]
    /\ entry = "Run"
    /\ Quality \in [Procs -> ParQualities]
    /\ srcPath = ParSrc
    /\ destPath = ParDest
    /\ srcProduced = FALSE
    /\ fsBefore = fs
    /\ steps = [p \in Procs |-> <<>>]
    /\ pngData = [p \in Procs |-> Nil]
    /\ originalData = [p \in Procs |-> Nil]
    /\ finalPSNR = [p \in Procs |-> ZeroScore]
    /\ comment = [p \in Procs |-> Nil]
    /\ output = [p \in Procs |-> ZeroOutput]
    /\ ret = [p \in Procs |-> NoRet]
    /\ gate = NoGate
    /\ logger = Nil
    /\ collab \in [Procs -> Collabs]

\* what no step of a concurrent run changes
ParFrame ==
    UNCHANGED <<dirs, runs, produced, entry, Quality, srcPath, destPath,
                srcProduced, fsBefore, gate, logger, collab>>

ParGo(p, to) == pc' = [pc EXCEPT ![p] = to]
ParStep(p, name) == steps' = [steps EXCEPT ![p] = Append(@, name)]
ParDone(p, result, err) ==
    /\ pc' = [pc EXCEPT ![p] = "done"]
    /\ ret' = [ret EXCEPT ![p] = Return(result, err)]

\* a logging sink of the host
TestLogger == [sink |-> "host"]

\* SetLogger(l), called by the host while no run is under way
SetLogger(l) ==
    /\ \A p \in Procs : pc[p] = "idle"
    /\ logger' = l
    /\ UNCHANGED <<fs, dirs, runs, produced, pc, entry, Quality, srcPath,
                   destPath, srcProduced, fsBefore, steps, pngData,
                   originalData, finalPSNR, comment, output, ret, gate, collab>>

\* go o.Run(srcPath, destPath): output := OptimizePNGOutput{}
ParCall(p) ==
    /\ pc[p] = "idle"
    /\ output' = [output EXCEPT ![Local(p)] = ZeroOutput]
    /\ ParGo(p, "read")
    /\ UNCHANGED <<fs, steps, pngData, originalData, finalPSNR, comment, ret>>
    /\ ParFrame

\* Read PNG file
ParRead(p) ==
    /\ pc[p] = "read"
    /\ ParStep(p, "read")
    /\ LET r == ReadFile(fs, srcPath[p])
       IN  IF r.err # Nil
           THEN /\ ParDone(p, Nil, Wrap("failed to read PNG file", r.err))
                /\ UNCHANGED <<pngData, output>>
           ELSE /\ pngData' = [pngData EXCEPT ![Local(p)] = r.data]
                /\ output' = [output EXCEPT
                                ![Local(p)].BeforeSize = FileLen(r.data)]
                /\ ParGo(p, "check")
                /\ ret' = ret
    /\ UNCHANGED <<fs, originalData, finalPSNR, comment>>
    /\ ParFrame

\* Check if already optimized using ReadComment
ParCheck(p) ==
    /\ pc[p] = "check"
    /\ ParStep(p, "check")
    /\ LET r == ReadComment(pngData[Local(p)])
       IN  IF r.err # Nil
           THEN /\ ParDone(p, Nil, Wrap("failed to read PNG comment", r.err))
                /\ UNCHANGED <<output, originalData>>
           ELSE IF IsAlreadyOptimized(r.comment)
           THEN /\ output' = [output EXCEPT
                                ![Local(p)].AlreadyOptimized = TRUE,
                                ![Local(p)].AlreadyOptimizedBy = r.comment.By]
                /\ ParDone(p, output'[Local(p)], Nil)
                /\ UNCHANGED originalData
           ELSE /\ originalData' = [originalData EXCEPT
                                      ![Local(p)] = pngData[Local(p)]]
                /\ ParGo(p, "strip")
                /\ UNCHANGED <<output, ret>>
    /\ UNCHANGED <<fs, pngData, finalPSNR, comment>>
    /\ ParFrame

\* Strip metadata using pngmetawebstrip
ParStrip(p) ==
    /\ pc[p] = "strip"
    /\ ParStep(p, "strip")
    /\ LET r == StripStep(pngData[Local(p)], output[Local(p)], collab[p].strip)
       IN  /\ pngData' = [pngData EXCEPT ![Local(p)] = r.data]
           /\ output' = [output EXCEPT ![Local(p)] = r.out]
    /\ ParGo(p, "quantize")
    /\ UNCHANGED <<fs, originalData, finalPSNR, comment, ret>>
    /\ ParFrame

\* Perform PNG quantization using Pngquant
ParQuantize(p) ==
    /\ pc[p] = "quantize"
    /\ ParStep(p, "quantize")
    /\ LET r == QuantizeStep("Run", Quality[p], pngData[Local(p)],
                             output[Local(p)], collab[p].eng)
       IN  IF r.abort # Nil
           THEN /\ ParDone(p, Nil, r.abort)
                /\ UNCHANGED <<pngData, output>>
           ELSE /\ pngData' = [pngData EXCEPT ![Local(p)] = r.data]
                /\ output' = [output EXCEPT ![Local(p)] = r.out]
                /\ ParGo(p, "score")
                /\ ret' = ret
    /\ UNCHANGED <<fs, originalData, finalPSNR, comment>>
    /\ ParFrame

\* Calculate final PSNR between original and final
ParScore(p) ==
    /\ pc[p] = "score"
    /\ ParStep(p, "score")
    /\ LET r == Compute(originalData[Local(p)], pngData[Local(p)])
       IN  IF ~r.ok
           THEN /\ ParDone(p, Nil, NewDataError("failed to calculate final PSNR"))
                /\ UNCHANGED finalPSNR
           ELSE /\ finalPSNR' = [finalPSNR EXCEPT ![Local(p)] = r.score]
                /\ ParGo(p, "build")
                /\ ret' = ret
    /\ UNCHANGED <<fs, pngData, originalData, comment, output>>
    /\ ParFrame

\* Build comment; check if adding it would make the file no smaller
ParBuild(p) ==
    /\ pc[p] = "build"
    /\ ParStep(p, "build")
    /\ comment' = [comment EXCEPT ![Local(p)] =
                     NewComment(output[Local(p)], pngData[Local(p)],
                                finalPSNR[Local(p)])]
    /\ LET built == BuildComment(comment'[Local(p)])
           currentSize == FileLen(pngData[Local(p)])
       IN  IF built.err # Nil
           THEN /\ ParDone(p, Nil, Wrap("failed to build comment", built.err))
                /\ UNCHANGED output
           ELSE IF CantShrink(currentSize, built.size,
                              output[Local(p)].BeforeSize)
           THEN /\ output' = [output EXCEPT ![Local(p)].CantOptimize = TRUE]
                /\ ParDone(p, output'[Local(p)], Nil)
           ELSE /\ ParGo(p, "embed")
                /\ UNCHANGED <<output, ret>>
    /\ UNCHANGED <<fs, pngData, originalData, finalPSNR>>
    /\ ParFrame

\* Write the comment
ParEmbed(p) ==
    /\ pc[p] = "embed"
    /\ ParStep(p, "embed")
    /\ LET w == WriteComment(pngData[Local(p)], comment[Local(p)])
       IN  IF w.err # Nil
           THEN /\ ParDone(p, Nil, Wrap("failed to write comment", w.err))
                /\ UNCHANGED pngData
           ELSE /\ pngData' = [pngData EXCEPT ![Local(p)] = w.data]
                /\ ParGo(p, "inspect")
                /\ ret' = ret
    /\ UNCHANGED <<fs, originalData, finalPSNR, comment, output>>
    /\ ParFrame

\* Set FinalPSNR and check the PSNR threshold
ParInspect(p) ==
    /\ pc[p] = "inspect"
    /\ ParStep(p, "inspect")
    /\ IF FailsInspection(finalPSNR[Local(p)])
       THEN /\ output' = [output EXCEPT
                            ![Local(p)].FinalPSNR = finalPSNR[Local(p)],
                            ![Local(p)].InspectionFailed = TRUE]
            /\ ParDone(p, output'[Local(p)], Nil)
       ELSE /\ output' = [output EXCEPT
                            ![Local(p)].FinalPSNR = finalPSNR[Local(p)]]
            /\ ParGo(p, "commit")
            /\ ret' = ret
    /\ UNCHANGED <<fs, pngData, originalData, finalPSNR, comment>>
    /\ ParFrame

\* Write the optimized PNG to destination path
ParCommit(p) ==
    /\ pc[p] = "commit"
    /\ ParStep(p, "commit")
    /\ LET w == WriteFile(fs, dirs, destPath[p], pngData[Local(p)])
       IN  IF w.err # Nil
           THEN /\ ParDone(p, Nil, Wrap("failed to write optimized PNG", w.err))
                /\ UNCHANGED fs
           ELSE /\ fs' = w.fs
                /\ ParGo(p, "stat")
                /\ ret' = ret
    /\ UNCHANGED <<pngData, originalData, finalPSNR, comment, output>>
    /\ ParFrame

\* Get file size after optimization
ParStat(p) ==
    /\ pc[p] = "stat"
    /\ ParStep(p, "stat")
    /\ LET st == Stat(fs, destPath[p])
       IN  IF st.err # Nil
           THEN /\ ParDone(p, Nil, Wrap("failed to stat destination file", st.err))
                /\ UNCHANGED output
           ELSE /\ output' = [output EXCEPT ![Local(p)].AfterSize = st.size]
                /\ ParDone(p, output'[Local(p)], Nil)
    /\ UNCHANGED <<fs, pngData, originalData, finalPSNR, comment>>
    /\ ParFrame

NextPar ==
    \/ \E l \in {Nil, TestLogger} : SetLogger(l)
    \/ \E p \in Procs : ParCall(p)
    \/ \E p \in Procs : ParRead(p)
    \/ \E p \in Procs : ParCheck(p)
    \/ \E p \in Procs : ParStrip(p)
    \/ \E p \in Procs : ParQuantize(p)
    \/ \E p \in Procs : ParScore(p)
    \/ \E p \in Procs : ParBuild(p)
    \/ \E p \in Procs : ParEmbed(p)
    \/ \E p \in Procs : ParInspect(p)
    \/ \E p \in Procs : ParCommit(p)
    \/ \E p \in Procs : ParStat(p)

SpecPar == InitPar /\ [][NextPar]_vars

\* what p's call returns and leaves behind when it runs with no other call
Alone(p) ==
    RunAlone(Quality[p], srcPath[p], destPath[p], collab[p], fsBefore, dirs)

\* p's call has returned what it returns alone, and its destination holds the
\* bytes it holds then; before that the destination is as it was or written
SameAsAlone(p) ==
    /\ pc[p] = "done" =>
          /\ ret[p] = Alone(p).ret
          /\ fs[destPath[p]] = Alone(p).fs[destPath[p]]
    /\ fs[destPath[p]] \in {fsBefore[destPath[p]], Alone(p).fs[destPath[p]]}
    /\ fs[srcPath[p]] = fsBefore[srcPath[p]]

\* a step that is not p's leaves p's buffers and result record alone
NotTouchedByOthers(p) ==
    pc'[p] = pc[p] =>
        /\ pngData'[p] = pngData[p]
        /\ originalData'[p] = originalData[p]
        /\ finalPSNR'[p] = finalPSNR[p]
        /\ comment'[p] = comment[p]
        /\ output'[p] = output[p]
        /\ ret'[p] = ret[p]

PassesTable(quality, score) ==
    \/ score.inf
    \/ quality = "force"
    \/ quality = "high" /\ score.mdb >= 45 * Milli
    \/ quality = "low" /\ score.mdb >= 39 * Milli
    \/ quality \notin {"high", "low", "force"} /\ score.mdb >= 42 * Milli

C22_FinalScoreIsPreEmbedding ==
    /\ [](/\ pc \in {"build", "embed"} =>
               /\ Compute(Source, pngData).ok
               /\ finalPSNR = Compute(Source, pngData).score
          /\ Took("inspect") =>
               /\ output.FinalPSNR = finalPSNR
               /\ output.InspectionFailed <=>
                     (~finalPSNR.inf /\ finalPSNR.mdb < 35 * Milli)
          /\ (ReturnedResult /\ Took("inspect")) =>
               ret.result.FinalPSNR = finalPSNR)
    /\ [][(pc \in {"build", "embed", "inspect", "commit", "stat"}) =>
            finalPSNR' = finalPSNR]_vars

\* a run whose quantization was rejected at 40 dB: the final score, taken
\* against the unquantized bytes, is infinite and is the one on the result
C22_Witness ==
    /\ ReturnedResult
    /\ LastStep = "stat"
    /\ ret.result.StripError = Nil
    /\ ret.result.SizeAfterStrip < ret.result.BeforeSize
    /\ ret.result.PNGQuant.PSNR = Finite(40 * Milli)
    /\ ~ret.result.PNGQuant.Applied
    /\ ret.result.FinalPSNR = Inf

\* --------------------------------------------- the colour-space adapter
\* uint8(uint16(c) * uint16(a) / 255): the product wraps at 16 bits, the
\* division truncates, the conversion keeps the low 8 bits
Premultiply(c, a) == (((c * a) % 65536) \div 255) % 256

\* the nearest integer to c * a / 255
PremultiplyRounded(c, a) == (2 * c * a + 255) \div 510

\* the conversion with every channel rounded to the nearest integer
convertNRGBAToRGBARounded(c) ==
    Pixel(PremultiplyRounded(c.R, c.A), PremultiplyRounded(c.G, c.A),
          PremultiplyRounded(c.B, c.A), c.A)

\* convertNRGBAToRGBA, for one pixel: dst.SetRGBA(x, y, color.RGBA{...})
convertNRGBAToRGBA(c) ==
    Pixel(Premultiply(c.R, c.A), Premultiply(c.G, c.A),
          Premultiply(c.B, c.A), c.A)

\* 8-bit samples the pixels are drawn from
Samples == {0, 1, 2, 3, 64, 127, 128, 129, 200, 254, 255}
FewSamples == {0, 1, 255}

InitConvert ==
    /\ fs = [p \in Paths |-> NoFile]
    /\ dirs = {".", "out"}
    /\ runs = 0
    /\ produced = {}
    /\ pc = "convert"
    /\ entry = "convertNRGBAToRGBA"
    /\ Quality = ""
    /\ srcPath = "in.png"
    /\ destPath = "out/a.png"
    /\ srcProduced = FALSE
    /\ fsBefore = fs
    /\ steps = <<>>
    /\ \E r \in Samples, g \in FewSamples, b \in FewSamples, a \in Samples :
          pngData = Pixel(r, g, b, a)
    /\ originalData = Nil
    /\ finalPSNR = ZeroScore
    /\ comment = Nil
    /\ output = Nil
    /\ ret = NoRet
    /\ gate = NoGate
    /\ logger = Nil
    /\ collab = Nil

\* rgba := convertNRGBAToRGBA(nrgba)
Convert ==
    /\ pc = "convert"
    /\ output' = convertNRGBAToRGBA(pngData)
    /\ pc' = "converted"
    /\ UNCHANGED <<fs, dirs, runs, produced, entry, Quality, srcPath, destPath,
                   srcProduced, fsBefore, steps, pngData, originalData,
                   finalPSNR, comment, ret, gate, logger, collab>>

NextConvert == Convert

SpecConvert == InitConvert /\ [][NextConvert]_vars

\* the nearest integer to n / 255, for n >= 0
Round255(n) == (2 * n + 255) \div 510

\* C23 as stated: every colour channel of the converted pixel is
\* round(channel * A / 255), and A is copied unchanged.
C23_ConversionRounds ==
    pc = "converted" =>
        /\ output.R = Round255(pngData.R * pngData.A)
        /\ output.G = Round255(pngData.G * pngData.A)
        /\ output.B = Round255(pngData.B * pngData.A)
        /\ output.A = pngData.A

\* C23: every colour channel of the converted pixel is channel * A / 255
\* rounded down (the integer quotient), and A is copied unchanged.
C23_ConversionTruncates ==
    pc = "converted" =>
        /\ output.R = (pngData.R * pngData.A) \div 255
        /\ output.G = (pngData.G * pngData.A) \div 255
        /\ output.B = (pngData.B * pngData.A) \div 255
        /\ output.A = pngData.A

\* a half-transparent pixel whose red and green channels rounding would
\* raise: 127 * 128 / 255 = 63.7..., 1 * 128 / 255 = 0.50...
C23_Witness ==
    /\ pc = "converted"
    /\ pngData = Pixel(127, 1, 255, 128)
    /\ output = Pixel(63, 0, 128, 128)

\* ------------------------------------------- failures of the quantize step
\* the quantize step was given an image the adapter does not support, or
\* the engine returned a status other than success for a supported one
QuantizeFailed ==
    /\ Took("quantize")
    /\ Decode(QuantizeInput).ok
    /\ Decode(QuantizeInput).layout # "palette"
    /\ output.PNGQuantError # Nil
    /\ output.PNGQuant.PSNR = ZeroScore

\* C24: when the quantize step fails because the decoded image is neither
\* RGBA/NRGBA nor index-colour, or because the engine returned a status other
\* than success, the error recorded in PNGQuantError is one for which
\* AsDataError is non-nil.
C24_QuantizeFailuresAreDataErrors ==
    QuantizeFailed => AsDataError(output.PNGQuantError)

\* ------------------------------------------------ Write-Comment's failures
\* the bytes do not parse as a container, or parse and hold no IEND chunk
NoPlaceForComment(data) ==
    ~data.parse \/ FirstIndex(IENDHits(data.chunks)) = 0

\* nil bytes and an error with a DataError in its chain
FailsClosed(w) == w.data = Nil /\ AsDataError(w.err)

FlagsSet(result) ==
    (IF result.AlreadyOptimized THEN 1 ELSE 0)
      + (IF result.CantOptimize THEN 1 ELSE 0)
      + (IF result.InspectionFailed THEN 1 ELSE 0)

\* C26: a call that has returned gave either an error and a nil result, or a
\* result and no error; in a result at most one of AlreadyOptimized,
\* CantOptimize and InspectionFailed is set, AfterSize is non-zero only when
\* none is, and FinalPSNR is 0 when AlreadyOptimized or CantOptimize is set.
\* When the working bytes with the comment would not be smaller than the
\* source and the final score is below 35, the result has CantOptimize set
\* and InspectionFailed unset.
C26_ExactlyOneOutcome ==
    Returned =>
        /\ \/ ret.err # Nil /\ ret.result = Nil
           \/ /\ ret.err = Nil
              /\ ret.result # Nil
              /\ FlagsSet(ret.result) <= 1
              /\ ret.result.AfterSize # 0 => FlagsSet(ret.result) = 0
              /\ (ret.result.AlreadyOptimized \/ ret.result.CantOptimize)
                    => ret.result.FinalPSNR = ZeroScore
        /\ (/\ Took("build")
            /\ BuildComment(comment).err = Nil
            /\ output.SizeAfterPNGQuant + BuildComment(comment).size
                 >= output.BeforeSize
            /\ ~finalPSNR.inf /\ finalPSNR.mdb < 35 * Milli)
              => /\ ReturnedResult
                 /\ ret.result.CantOptimize
                 /\ ~ret.result.InspectionFailed

\* a forced quantization scoring 27 dB whose bytes are larger than the source
C26_Witness ==
    /\ ReturnedResult
    /\ ret.result.CantOptimize
    /\ ~ret.result.InspectionFailed
    /\ ret.result.PNGQuant.Applied
    /\ finalPSNR = Finite(27 * Milli)
    /\ ret.result.SizeAfterPNGQuant > ret.result.BeforeSize

\* ------------------------------------------------- committed means smaller
\* C27: in every run that wrote its destination and returned its result,
\* AfterSize < BeforeSize, and the bytes written are no more than the working
\* bytes before the comment plus the cost Build-Comment reported.
C27_CommittedIsSmaller ==
    (ReturnedResult /\ LastStep = "stat") =>
        /\ ret.result.AfterSize < ret.result.BeforeSize
        /\ ret.result.AfterSize = FileLen(fs[destPath])
        /\ ret.result.AfterSize
             <= ret.result.SizeAfterPNGQuant + BuildComment(comment).size

\* accepted quantized bytes larger than the stripped bytes, still committed
C27_Witness ==
    /\ ReturnedResult
    /\ LastStep = "stat"
    /\ ret.result.PNGQuant.Applied
    /\ ret.result.SizeAfterPNGQuant > ret.result.SizeAfterStrip
    /\ ret.result.AfterSize < ret.result.BeforeSize

\* ------------------------------------------------ runs that may be in place
\* The pipeline with the source at "in.png" and the destination either
\* another path or the source's own.
InPlaceDests == {"in.png", "out/a.png"}

NextInPlace ==
    \/ \E e \in Entries, q \in Qualities, d \in InPlaceDests :
          Call(e, q, "in.png", d)
    \/ Read
    \/ CheckAlreadyOptimized
    \/ StripMetadata
    \/ Quantize
    \/ ComputeFinalScore
    \/ BuildAndSizeCheck
    \/ Embed
    \/ FinalInspection
    \/ Commit
    \/ StatDest
    \/ RemoveDest

SpecInPlace == Init /\ [][NextInPlace]_vars

\* the steps of a run up to the write, in order
StepsBeforeCommit ==
    <<"read", "check", "strip", "quantize", "score", "build", "embed", "inspect">>

\* a step of the run (not of the environment) that changes the file system
\* is the write of a run that has taken every earlier step once, in order,
\* with none of the three flags set, and changes the destination path only
OnlyCommitWrites ==
    (steps' # steps /\ fs' # fs) =>
        /\ pc = "commit"
        /\ steps = StepsBeforeCommit
        /\ ~output.AlreadyOptimized
        /\ ~output.CantOptimize
        /\ ~output.InspectionFailed
        /\ \A p \in Paths \ {destPath} : fs'[p] = fs[p]

\* a call that returned without reaching the write left the destination as
\* it was
UntouchedUnlessCommitted ==
    (Returned /\ ~Took("commit")) =>
        /\ fs[destPath] = fsBefore[destPath]
        /\ fs = fsBefore

\* C28 as stated: the destination is written at most once per run, only
\* after the already-optimized check, the size check and the inspection
\* passed, in that order; a run ending as AlreadyOptimized, CantOptimize,
\* InspectionFailed or with an error before the write leaves the destination
\* untouched; and no step of a run writes the source file.
C28_SourceNeverWritten ==
    /\ [](UntouchedUnlessCommitted)
    /\ [][OnlyCommitWrites]_vars
    /\ [][steps' # steps => fs'[srcPath] = fs[srcPath]]_vars

\* C28: as above, with the source file never written by a run whose
\* destination path is not the source path.
C28_WrittenOnceAfterChecks ==
    /\ [](UntouchedUnlessCommitted)
    /\ [][OnlyCommitWrites]_vars
    /\ [][(steps' # steps /\ srcPath # destPath) =>
             fs'[srcPath] = fs[srcPath]]_vars

\* a run in place that committed: the source path holds the optimized bytes
C28_Witness ==
    /\ ReturnedResult
    /\ LastStep = "stat"
    /\ srcPath = destPath
    /\ fs[srcPath] # fsBefore[srcPath]
    /\ FirstReserved(fs[srcPath]) # Nil

\* ------------------------------------------------ writing a comment twice
\* C29: for a valid container d and a comment t, with either writer, writing
\* t into the bytes that writing t into d returned gives those bytes again;
\* writing another comment t2 into them gives what writing t2 into d gives;
\* and the chunks of d that do not carry the reserved keyword are in the
\* output with the same type and data, in the same order.
C29_WriteCommentIdempotent ==
    (pc = "written" /\ ret.err = Nil) =>
        LET W(d, c) == IF entry = "PNGMetaManager"
                       THEN WriteComment(d, c)
                       ELSE CommentGoWriteComment(d, CommentGoBuildComment(c).text)
            t2 == LightFileComment("other-tool", 10, 5, FALSE, Inf)
        IN  /\ W(pngData, comment).err = Nil
            /\ W(pngData, comment).data = pngData
            /\ W(pngData, t2).data = W(originalData, t2).data
            /\ SelectSeq(pngData.chunks, NotLightFileChunk)
                 = SelectSeq(originalData.chunks, NotLightFileChunk)

\* ------------------------------------------- the first reserved chunk only
\* a tEXt chunk with a null separator and the keyword "LightFile"
CarriesKeyword(chunk) ==
    chunk.Type = "tEXt" /\ chunk.Data.sep /\ chunk.Data.kw = "LightFile"

\* the position of the first such chunk, 0 when there is none
FirstKeywordChunk(chunks) ==
    IF \E i \in 1..Len(chunks) : CarriesKeyword(chunks[i])
    THEN CHOOSE i \in 1..Len(chunks) :
            /\ CarriesKeyword(chunks[i])
            /\ \A j \in 1..(i - 1) : ~CarriesKeyword(chunks[j])
    ELSE 0

\* a chunk after the first reserved one holds a record with non-empty 'by'
LaterValidRecord(chunks) ==
    \E j \in (FirstKeywordChunk(chunks) + 1)..Len(chunks) :
        /\ CarriesKeyword(chunks[j])
        /\ Unmarshal(chunks[j].Data.text).ok
        /\ Unmarshal(chunks[j].Data.text).c.By # ""

\* C30: on a source that parses, ReadComment returns what the first tEXt
\* chunk with a null separator and the keyword "LightFile" gives: no record
\* when there is none or its text does not deserialize, its record
\* otherwise; chunks without separator or with another keyword do not count.
\* When that first chunk does not deserialize the run is not
\* AlreadyOptimized and goes on to strip, a later valid record or not.
C30_FirstReservedDecides ==
    (Took("check") /\ Source # NoFile /\ Source.parse) =>
        LET i == FirstKeywordChunk(Source.chunks)
            u == Unmarshal(Source.chunks[i].Data.text)
            r == ReadComment(Source)
        IN  /\ r.err = Nil
            /\ i = 0 => r.comment = Nil
            /\ (i # 0 /\ ~u.ok) =>
                  /\ r.comment = Nil
                  /\ ~output.AlreadyOptimized
                  /\ pc = "strip" \/ Took("strip")
            /\ (i # 0 /\ u.ok) => r.comment = u.c

\* a source whose first reserved chunk is not JSON and whose second holds a
\* LightFile record: processed again, down to the write
C30_Witness ==
    /\ ReturnedResult
    /\ LastStep = "stat"
    /\ Source.parse
    /\ FirstKeywordChunk(Source.chunks) # 0
    /\ ~Unmarshal(Source.chunks[FirstKeywordChunk(Source.chunks)].Data.text).ok
    /\ LaterValidRecord(Source.chunks)
    /\ ~ret.result.AlreadyOptimized

====
